---- MODULE Spec2Model ----
(***************************************************************************)
(* label-ai-v1: the compliance rule evaluation engine                      *)
(* (backend/app/services/rule_engine.py :: process_label_analysis_sync)    *)
(* with the text utilities it calls (backend/app/utils/text_utils.py).     *)
(*                                                                         *)
(* Representation                                                          *)
(*   - a Python str is a sequence of code points (naturals);               *)
(*   - an Optional[T] is a set with at most one element ({} is None);      *)
(*   - a similarity ratio is kept in whole percent (thefuzz returns an     *)
(*     int 0..100 that the code divides by 100.0), thresholds likewise;    *)
(*   - millimetres are kept in tenths of a millimetre;                     *)
(*   - a confidence is a fraction <<numerator, denominator>> of percent.   *)
(***************************************************************************)
EXTENDS Integers, Sequences, FiniteSets, TLC

\* ------------------------------------------------------------------ bounds
\* Largest number of conditions in an enumerated rule set.
MaxConds == 2

\* ------------------------------------------------- small arithmetic helpers
Abs(x) == IF x < 0 THEN -x ELSE x

Max2(a, b) == IF a >= b THEN a ELSE b

Min2(a, b) == IF a <= b THEN a ELSE b

None == {}

Some(v) == {v}

IsNone(o) == o = {}

The(o) == CHOOSE v \in o : TRUE

\* ---------------------------------------------------------------- strings
SPACE == 32

IsUpper(c) == c >= 65 /\ c <= 90

IsAlnum(c) == (c >= 48 /\ c <= 57) \/ (c >= 65 /\ c <= 90) \/ (c >= 97 /\ c <= 122)

Lower(c) == IF IsUpper(c) THEN c + 32 ELSE c

\* str.lower()
LowerStr(s) == [k \in 1..Len(s) |-> Lower(s[k])]

\* thefuzz utils.full_process with force_ascii=False: every character that
\* is not alphanumeric becomes a blank, the rest is lower-cased (the
\* surrounding blanks it strips vanish in the split that follows).
full_process(s) == [k \in 1..Len(s) |-> IF IsAlnum(s[k]) THEN Lower(s[k]) ELSE SPACE]

\* str.split(): the maximal runs of non-blank characters, in order.
RECURSIVE SplitFrom(_, _, _, _)
SplitFrom(s, k, cur, acc) ==
    IF k > Len(s)
    THEN IF cur = <<>> THEN acc ELSE Append(acc, cur)
    ELSE IF s[k] = SPACE
         THEN SplitFrom(s, k + 1, <<>>, IF cur = <<>> THEN acc ELSE Append(acc, cur))
         ELSE SplitFrom(s, k + 1, Append(cur, s[k]), acc)

Split(s) == SplitFrom(s, 1, <<>>, <<>>)

TokenSet(s) == {Split(s)[k] : k \in 1..Len(Split(s))}

\* Python's str ordering: lexicographic by code point, a prefix first.
RECURSIVE LexLess(_, _)
LexLess(a, b) ==
    IF a = <<>> THEN b # <<>>
    ELSE IF b = <<>> THEN FALSE
    ELSE IF a[1] # b[1] THEN a[1] < b[1]
    ELSE LexLess(Tail(a), Tail(b))

\* sorted(tokens)
RECURSIVE SortedTokens(_)
SortedTokens(S) ==
    IF S = {} THEN <<>>
    ELSE LET m == CHOOSE t \in S : \A u \in S \ {t} : LexLess(t, u)
         IN  <<m>> \o SortedTokens(S \ {m})

\* " ".join(seq_of_strings)
RECURSIVE JoinSpace(_)
JoinSpace(ts) ==
    IF ts = <<>> THEN <<>>
    ELSE IF Len(ts) = 1 THEN ts[1]
    ELSE ts[1] \o <<SPACE>> \o JoinSpace(Tail(ts))

\* Longest common subsequence, one dynamic-programming row at a time.
RECURSIVE LcsRow(_, _, _, _, _)
LcsRow(prev, c, b, j, cur) ==
    IF j > Len(b) THEN cur
    ELSE LET diag == IF j = 1 THEN 0 ELSE prev[j - 1]
             left == IF j = 1 THEN 0 ELSE cur[j - 1]
             v    == IF b[j] = c THEN diag + 1 ELSE Max2(prev[j], left)
         IN  LcsRow(prev, c, b, j + 1, Append(cur, v))

RECURSIVE LcsRows(_, _, _, _)
LcsRows(a, b, k, prev) ==
    IF k > Len(a) THEN prev
    ELSE LcsRows(a, b, k + 1, LcsRow(prev, a[k], b, 1, <<>>))

Lcs(a, b) ==
    IF a = <<>> \/ b = <<>> THEN 0
    ELSE LcsRows(a, b, 1, [j \in 1..Len(b) |-> 0])[Len(b)]

\* rapidfuzz Indel distance: insertions and deletions only.
indel_distance(a, b) == Len(a) + Len(b) - 2 * Lcs(a, b)

\* Python round() of the fraction n/d (d > 0, n >= 0): half to even.
RoundHalfEven(n, d) ==
    LET q == n \div d
        r == n % d
    IN  IF 2 * r < d THEN q
        ELSE IF 2 * r > d THEN q + 1
        ELSE IF q % 2 = 0 THEN q ELSE q + 1

\* rapidfuzz _norm_distance: 100 - 100*dist/lensum, kept as a fraction
\* <<numerator, denominator>>.
norm_distance(dist, lensum) ==
    IF lensum = 0 THEN <<100, 1>> ELSE <<100 * (lensum - dist), lensum>>

FracMax(x, y) == IF x[1] * y[2] >= y[1] * x[2] THEN x ELSE y

\* rapidfuzz fuzz.token_set_ratio on processed strings, rounded by thefuzz
\* with int(round(score)).
token_set_ratio(s1, s2) ==
    LET p1 == full_process(s1)
        p2 == full_process(s2)
        tokens_a == TokenSet(p1)
        tokens_b == TokenSet(p2)
        intersect == tokens_a \cap tokens_b
        diff_ab == tokens_a \ tokens_b
        diff_ba == tokens_b \ tokens_a
        diff_ab_joined == JoinSpace(SortedTokens(diff_ab))
        diff_ba_joined == JoinSpace(SortedTokens(diff_ba))
        ab_len == Len(diff_ab_joined)
        ba_len == Len(diff_ba_joined)
        sect_len == Len(JoinSpace(SortedTokens(intersect)))
        sep == IF sect_len # 0 THEN 1 ELSE 0
        sect_ab_len == sect_len + sep + ab_len
        sect_ba_len == sect_len + sep + ba_len
        result == norm_distance(indel_distance(diff_ab_joined, diff_ba_joined),
                                sect_ab_len + sect_ba_len)
        sect_ab_ratio == norm_distance(sep + ab_len, sect_len + sect_ab_len)
        sect_ba_ratio == norm_distance(sep + ba_len, sect_len + sect_ba_len)
        best == IF sect_len = 0 THEN result
                ELSE FracMax(result, FracMax(sect_ab_ratio, sect_ba_ratio))
    IN  IF tokens_a = {} \/ tokens_b = {} THEN 0
        ELSE IF intersect # {} /\ (diff_ab = {} \/ diff_ba = {}) THEN 100
        ELSE RoundHalfEven(best[1], best[2])

\* Mutation: the early return is taken only when both texts are empty.
EarlyReturn_BothEmpty(text1, text2) == text1 = <<>> /\ text2 = <<>>

\* "if not text1 or not text2"
EarlyReturn(text1, text2) == text1 = <<>> \/ text2 = <<>>

\* text_utils.get_text_similarity_ratio, in percent.
get_text_similarity_ratio(text1, text2) ==
    IF EarlyReturn(text1, text2) THEN 0
    ELSE token_set_ratio(text1, text2)

\* The calls of fuzz.token_set_ratio it makes, by their arguments.
ScorerCalls(text1, text2) ==
    IF EarlyReturn(text1, text2) THEN <<>> ELSE <<[s1 |-> text1, s2 |-> text2]>>

\* --------------------------------------------------------------- OCR data
\* ocr.OCRData
OCRData(text, left, top, width, height, confidence) ==
    [text |-> text, left |-> left, top |-> top, width |-> width,
     height |-> height, confidence |-> confidence]

RECURSIVE Gcd(_, _)
Gcd(a, b) == IF b = 0 THEN a ELSE Gcd(b, a % b)

FracNorm(n, d) == LET g == Gcd(n, d) IN IF g = 0 THEN <<0, 1>> ELSE <<n \div g, d \div g>>

FracAdd(x, y) == FracNorm(x[1] * y[2] + y[1] * x[2], x[2] * y[2])

RECURSIVE FracSum(_)
FracSum(fs) == IF fs = <<>> THEN <<0, 1>> ELSE FracAdd(fs[1], FracSum(Tail(fs)))

\* numpy.mean of a non-empty list
Mean(fs) == LET t == FracSum(fs) IN FracNorm(t[1], t[2] * Len(fs))

TopLeftLess(a, b) == a.top < b.top \/ (a.top = b.top /\ a.left < b.left)

\* Mutation: the words of a line are ordered by top.
LeftLess_ByTop(a, b) == a.top < b.top

LeftLess(a, b) == a.left < b.left

\* key(a) < key(b) for the two sort keys the code uses.
KeyLess(key, a, b) == IF key = "top_left" THEN TopLeftLess(a, b) ELSE LeftLess(a, b)

\* list.sort(key=...) is stable: an element goes after every element
\* already placed whose key is not greater.
RECURSIVE InsertSorted(_, _, _)
InsertSorted(sorted, x, key) ==
    IF sorted = <<>> THEN <<x>>
    ELSE IF KeyLess(key, x, sorted[1]) THEN <<x>> \o sorted
    ELSE <<sorted[1]>> \o InsertSorted(Tail(sorted), x, key)

RECURSIVE StableSort(_, _)
StableSort(xs, key) ==
    IF xs = <<>> THEN <<>>
    ELSE InsertSorted(StableSort(SubSeq(xs, 1, Len(xs) - 1), key), xs[Len(xs)], key)

\* ocr_data.sort(key=lambda item: (item.top, item.left))
SortByTopLeft(ocr) == StableSort(ocr, "top_left")

\* Mutation: "<=" in place of "<".
SameLine_Inclusive(previous_item, item) ==
    10 * Abs((2 * item.top + item.height) - (2 * previous_item.top + previous_item.height))
        <= 14 * previous_item.height

\* abs(mid(item) - mid(previous)) < previous.height * 0.7, with
\* mid = top + height / 2; both sides multiplied by 20.
SameLine(previous_item, item) ==
    10 * Abs((2 * item.top + item.height) - (2 * previous_item.top + previous_item.height))
        < 14 * previous_item.height

\* The grouping loop over the sorted items: the closed lines, then the
\* current line.
RECURSIVE GroupLines(_, _, _, _)
GroupLines(sorted, k, reconstructed_lines, current_line) ==
    IF k > Len(sorted)
    THEN IF current_line = <<>> THEN reconstructed_lines
         ELSE Append(reconstructed_lines, current_line)
    ELSE IF current_line = <<>>
         THEN GroupLines(sorted, k + 1, reconstructed_lines, <<sorted[k]>>)
         ELSE IF SameLine(current_line[Len(current_line)], sorted[k])
              THEN GroupLines(sorted, k + 1, reconstructed_lines, Append(current_line, sorted[k]))
              ELSE GroupLines(sorted, k + 1, Append(reconstructed_lines, current_line), <<sorted[k]>>)

SeqMin(xs) == CHOOSE m \in {xs[k] : k \in 1..Len(xs)} : \A k \in 1..Len(xs) : m <= xs[k]

SeqMax(xs) == CHOOSE m \in {xs[k] : k \in 1..Len(xs)} : \A k \in 1..Len(xs) : m >= xs[k]

\* Mutation: the right edge is stored as the width, the bottom edge as the
\* height.
MergeLine_EdgesAsSize(line_unsorted) ==
    LET line == StableSort(line_unsorted, "left")
        full_text == JoinSpace([k \in 1..Len(line) |-> line[k].text])
        min_left == SeqMin([k \in 1..Len(line) |-> line[k].left])
        min_top == SeqMin([k \in 1..Len(line) |-> line[k].top])
        max_right == SeqMax([k \in 1..Len(line) |-> line[k].left + line[k].width])
        max_bottom == SeqMax([k \in 1..Len(line) |-> line[k].top + line[k].height])
        avg_confidence == Mean([k \in 1..Len(line) |-> line[k].confidence])
    IN  OCRData(full_text, min_left, min_top, max_right, max_bottom, avg_confidence)

\* One line merged into one OCRData.
MergeLine(line_unsorted) ==
    LET line == StableSort(line_unsorted, "left")
        full_text == JoinSpace([k \in 1..Len(line) |-> line[k].text])
        min_left == SeqMin([k \in 1..Len(line) |-> line[k].left])
        min_top == SeqMin([k \in 1..Len(line) |-> line[k].top])
        max_right == SeqMax([k \in 1..Len(line) |-> line[k].left + line[k].width])
        max_bottom == SeqMax([k \in 1..Len(line) |-> line[k].top + line[k].height])
        avg_confidence == Mean([k \in 1..Len(line) |-> line[k].confidence])
    IN  OCRData(full_text, min_left, min_top, max_right - min_left,
                max_bottom - min_top, avg_confidence)

\* text_utils.reconstruct_text_blocks: the returned line blocks (the
\* argument list is also sorted in place, see SortByTopLeft).
reconstruct_text_blocks(ocr_data) ==
    IF ocr_data = <<>> THEN <<>>
    ELSE LET lines == GroupLines(SortByTopLeft(ocr_data), 1, <<>>, <<>>)
         IN  [k \in 1..Len(lines) |-> MergeLine(lines[k])]

\* ------------------------------------------------------------ rule engine
\* rule_engine.py thresholds, in percent.
PERFECT_MATCH_THRESHOLD == 98

NEAR_MATCH_THRESHOLD == 85

\* Mutation: the minimum is set ten points too high.
MINIMUM_SIMILARITY_TooHigh == 60 + 10

MINIMUM_SIMILARITY_TO_CONSIDER == 60

\* The 0.5 of "(condition.tolerance_mm or 0.5)", in tenths of a millimetre.
DEFAULT_TOLERANCE == 5

\* schemas.RuleType values
EXACT_TEXT_MATCH == "exact_text_match"

FONT_SIZE == "font_size"

SPACING == "spacing"

BARCODE_DIMENSIONS == "barcode_dimensions"

ELEMENT_PRESENCE == "element_presence"

TRANSLATION_MATCH == "translation_match"

RuleType == {EXACT_TEXT_MATCH, FONT_SIZE, SPACING, BARCODE_DIMENSIONS,
             ELEMENT_PRESENCE, TRANSLATION_MATCH}

\* schemas.RuleCondition, the fields the engine can read, and
\* sensitivity_override with its default.
RuleCondition(type, target, text, cs, w, h, tol) ==
    [type |-> type, target_element_description |-> target, expected_text |-> text,
     case_sensitive |-> cs, expected_width_mm |-> w, expected_height_mm |-> h,
     tolerance_mm |-> tol, sensitivity_override |-> None]

\* schemas.BoundingBox
BoundingBox(x, y, width, height) == [x |-> x, y |-> y, width |-> width, height |-> height]

\* A str value of a highlight: a text taken from the data, or a literal.
Text(t) == [text |-> t]

Lit(l) == [lit |-> l]

\* schemas.HighlightedElement; found_value, expected_value and confidence
\* are Optional and default to None.
HighlightedElement(ref, box, status, message, found, expected) ==
    [rule_id_ref |-> ref, bounding_box |-> box, status |-> status, message |-> message,
     found_value |-> found, expected_value |-> expected, confidence |-> None]

\* Mutation: the 0-based loop index is used as it is.
rule_id_ref_ZeroBased(i, type) == <<"rule", i, type>>

\* f"rule_{i+1}_{condition.type.value}" for the 0-based position i.
rule_id_ref(i, type) == <<"rule", i + 1, type>>

\* Mutation: the fault box is put at the image origin.
create_generic_fault_highlight_AtOrigin(ref, message) ==
    HighlightedElement(ref, BoundingBox(0, 0, 20, 20), "wrong", message,
                       Some(Lit("Not Found")), Some(Lit("Varies per rule")))

\* rule_engine._create_generic_fault_highlight
create_generic_fault_highlight(ref, message) ==
    HighlightedElement(ref, BoundingBox(5, 5, 20, 20), "wrong", message,
                       Some(Lit("Not Found")), Some(Lit("Varies per rule")))

\* Mutation: x and y are taken from the wrong fields.
ItemBox_Swapped(item) == BoundingBox(item.top, item.left, item.width, item.height)

ItemBox(item) == BoundingBox(item.left, item.top, item.width, item.height)

\* Mutation: "is None" in place of "not": an empty string passes.
Falsy_OnlyNone(opt_text) == IsNone(opt_text)

\* Python truthiness of an Optional[str]: None and "" are falsy.
Falsy(opt_text) == IsNone(opt_text) \/ The(opt_text) = <<>>

\* The search loop of the EXACT_TEXT_MATCH branch: a later item replaces
\* the best one only with a strictly greater score.
RECURSIVE BestMatchFrom(_, _, _, _, _)
BestMatchFrom(expected_text, items, k, best_match_score, best_match_item) ==
    IF k > Len(items)
    THEN [score |-> best_match_score, item |-> best_match_item]
    ELSE LET score == get_text_similarity_ratio(expected_text, items[k].text)
         IN  IF score > best_match_score
             THEN BestMatchFrom(expected_text, items, k + 1, score, Some(items[k]))
             ELSE BestMatchFrom(expected_text, items, k + 1, best_match_score, best_match_item)

\* Mutation: ">=" in place of ">": the last item with the best score wins.
RECURSIVE BestMatchFrom_LastWins(_, _, _, _, _)
BestMatchFrom_LastWins(expected_text, items, k, best_match_score, best_match_item) ==
    IF k > Len(items)
    THEN [score |-> best_match_score, item |-> best_match_item]
    ELSE LET score == get_text_similarity_ratio(expected_text, items[k].text)
         IN  IF score >= best_match_score
             THEN BestMatchFrom_LastWins(expected_text, items, k + 1, score, Some(items[k]))
             ELSE BestMatchFrom_LastWins(expected_text, items, k + 1, best_match_score,
                                         best_match_item)

BestMatch_LastWins(expected_text, items) ==
    BestMatchFrom_LastWins(expected_text, items, 1, 0, None)

BestMatch(expected_text, items) == BestMatchFrom(expected_text, items, 1, 0, None)

\* next((x for x in xs if P(x)), None) over the positions where P holds.
FirstIndex(hits) == IF hits = {} THEN 0 ELSE CHOOSE k \in hits : \A j \in hits : k <= j

\* Mutation: the first EXACT_TEXT_MATCH condition with the same target that
\* has an expected text.
BarcodeNumberRule_FirstWithText(conds, condition) ==
    LET k == FirstIndex({j \in 1..Len(conds) :
                 /\ conds[j].type = EXACT_TEXT_MATCH
                 /\ conds[j].target_element_description = condition.target_element_description
                 /\ ~Falsy(conds[j].expected_text)})
    IN  IF k = 0 THEN None ELSE Some(conds[k])

\* The companion rule of a BARCODE_DIMENSIONS condition: the first
\* EXACT_TEXT_MATCH condition of the rule set with the same target.
BarcodeNumberRule(conds, condition) ==
    LET k == FirstIndex({j \in 1..Len(conds) :
                 /\ conds[j].type = EXACT_TEXT_MATCH
                 /\ conds[j].target_element_description = condition.target_element_description})
    IN  IF k = 0 THEN None ELSE Some(conds[k])

\* Mutation: the first detected barcode is taken whatever its data.
BarcodeToCheck_AnyData(barcodes, number) ==
    IF barcodes = <<>> THEN None ELSE Some(barcodes[1])

\* The first detected barcode whose data is the wanted number.
BarcodeToCheck(barcodes, number) ==
    LET k == FirstIndex({j \in 1..Len(barcodes) : barcodes[j].data = number})
    IN  IF k = 0 THEN None ELSE Some(barcodes[k])

\* (condition.tolerance_mm or 0.5): None and 0 both give the default.
EffectiveTolerance(condition) ==
    IF IsNone(condition.tolerance_mm) \/ The(condition.tolerance_mm) = 0
    THEN DEFAULT_TOLERANCE
    ELSE The(condition.tolerance_mm)

\* Mutation: "<" in place of "<=".
DimensionOk_Strict(measured, expected, condition) ==
    IF IsNone(expected) THEN TRUE
    ELSE Abs(measured - The(expected)) < EffectiveTolerance(condition)

\* width_ok / height_ok
DimensionOk(measured, expected, condition) ==
    IF IsNone(expected) THEN TRUE
    ELSE Abs(measured - The(expected)) <= EffectiveTolerance(condition)

\* What evaluating one condition adds: the highlights and fault-log
\* entries appended, and the increments of the two counters.
Effect(h, f, m, mm) == [highlights |-> h, faults |-> f, matches |-> m, mismatches |-> mm]

NoEffect == Effect(<<>>, <<>>, 0, 0)

\* The EXACT_TEXT_MATCH branch after the search loop: the verdict on the
\* best match found.
ExactTextVerdict(ref, expected_text, best) ==
    LET best_match_score == best.score
        best_match_item == The(best.item)
    IN  IF best_match_score >= PERFECT_MATCH_THRESHOLD
        THEN Effect(<<HighlightedElement(ref, ItemBox(best_match_item), "correct",
                        [msg |-> "Found expected text: '{expected_text}'",
                         expected_text |-> expected_text],
                        Some(Text(best_match_item.text)), Some(Text(expected_text)))>>,
                    <<>>, 1, 0)
        ELSE IF best_match_score >= NEAR_MATCH_THRESHOLD
        THEN Effect(<<HighlightedElement(ref, ItemBox(best_match_item), "wrong",
                        [msg |-> "Found text '{found}', but it's not an exact match for '{expected_text}'. (Similarity: {score})",
                         found |-> best_match_item.text, expected_text |-> expected_text,
                         score |-> best_match_score],
                        Some(Text(best_match_item.text)), Some(Text(expected_text)))>>,
                    <<>>, 0, 1)
        ELSE IF best_match_score < MINIMUM_SIMILARITY_TO_CONSIDER
        THEN LET fault_message == [msg |-> "Missing required text: '{expected_text}'",
                                   expected_text |-> expected_text]
             IN  Effect(<<create_generic_fault_highlight(ref, fault_message)>>,
                        <<fault_message>>, 0, 1)
        ELSE Effect(<<HighlightedElement(ref, ItemBox(best_match_item), "wrong",
                        [msg |-> "Found text with low similarity: '{found}' for expected text '{expected_text}'. (Similarity: {score})",
                         found |-> best_match_item.text, expected_text |-> expected_text,
                         score |-> best_match_score],
                        Some(Text(best_match_item.text)), Some(Text(expected_text)))>>,
                    <<>>, 0, 1)

\* The EXACT_TEXT_MATCH branch.
ExactTextOutcome(ref, condition, items) ==
    IF Falsy(condition.expected_text) THEN NoEffect
    ELSE ExactTextVerdict(ref, The(condition.expected_text),
                          BestMatch(The(condition.expected_text), items))

\* The fault-log entry of the FONT_SIZE branch and of the final else.
NotImplementedFault(condition) ==
    [msg |-> "Rule type '{type}' for '{target}' not fully implemented.",
     type |-> condition.type, target |-> condition.target_element_description]

\* Mutation: the branch locates the target text and reports it as 'info'
\* without counting anything.
FontSizeOutcome_Info(ref, condition, items) ==
    IF items = <<>> THEN Effect(<<>>, <<NotImplementedFault(condition)>>, 0, 1)
    ELSE Effect(<<HighlightedElement(ref, ItemBox(items[1]), "info",
                     [msg |-> "Font size check unresolved."], None, None)>>,
                <<>>, 0, 0)

\* The FONT_SIZE branch.
FontSizeOutcome(ref, condition, items) ==
    Effect(<<>>, <<NotImplementedFault(condition)>>, 0, 1)

\* Mutation: an unimplemented type passes silently.
OtherOutcome_Silent(ref, condition) == NoEffect

\* The final else: SPACING, ELEMENT_PRESENCE, TRANSLATION_MATCH.
OtherOutcome(ref, condition) ==
    Effect(<<>>, <<NotImplementedFault(condition)>>, 0, 1)

\* The BARCODE_DIMENSIONS branch.
BarcodeOutcome(ref, condition, conds, barcodes) ==
    LET barcode_number_rule == BarcodeNumberRule(conds, condition)
    IN
    IF barcodes = <<>>
    THEN Effect(<<create_generic_fault_highlight(ref,
                    [msg |-> "No barcode detected on label to check dimensions."])>>,
                <<>>, 0, 1)
    ELSE IF IsNone(barcode_number_rule) \/ Falsy(The(barcode_number_rule).expected_text)
    THEN Effect(<<create_generic_fault_highlight(ref,
                    [msg |-> "Could not find barcode number in rules for '{target}'.",
                     target |-> condition.target_element_description])>>,
                <<>>, 0, 1)
    ELSE
    LET barcode_number_to_find == The(The(barcode_number_rule).expected_text)
        found == BarcodeToCheck(barcodes, barcode_number_to_find)
    IN
    IF IsNone(found)
    THEN Effect(<<create_generic_fault_highlight(ref,
                    [msg |-> "Could not find barcode with data '{data}' on the label.",
                     data |-> barcode_number_to_find])>>,
                <<>>, 0, 1)
    ELSE
    LET barcode_to_check == The(found)
        width_ok == DimensionOk(barcode_to_check.measured_width_mm,
                                condition.expected_width_mm, condition)
        height_ok == DimensionOk(barcode_to_check.measured_height_mm,
                                 condition.expected_height_mm, condition)
        status == IF width_ok /\ height_ok THEN "correct" ELSE "wrong"
        message == IF status = "correct"
                   THEN [msg |-> "Barcode ({data}) dimensions are valid.",
                         data |-> barcode_to_check.data]
                   ELSE [msg |-> "Barcode ({data}) dimensions invalid. Found: W={w}mm, H={h}mm",
                         data |-> barcode_to_check.data,
                         w |-> barcode_to_check.measured_width_mm,
                         h |-> barcode_to_check.measured_height_mm]
        expected_value == [w |-> condition.expected_width_mm,
                           h |-> condition.expected_height_mm]
    IN  Effect(<<HighlightedElement(ref, barcode_to_check.bounding_box, status, message,
                                    None, Some(expected_value))>>,
               <<>>,
               IF status = "correct" THEN 1 ELSE 0,
               IF status = "correct" THEN 0 ELSE 1)

\* ---------------------------------------------------------------- inputs
\* Texts: "Net", "NET", "Nets", "Ned", "Nex", "xy", "WT", "12", "123", "99",
\* "BC1".
T_Net == <<78, 101, 116>>

T_NET == <<78, 69, 84>>

T_Nets == <<78, 101, 116, 115>>

T_Ned == <<78, 101, 100>>

T_Nex == <<78, 101, 120>>

T_xy == <<120, 121>>

T_WT == <<87, 84>>

T_12 == <<49, 50>>

T_123 == <<49, 50, 51>>

T_99 == <<57, 57>>

T_BC1 == <<66, 67, 49>>

\* "--": a text without any letter or digit.
T_dashes == <<45, 45>>

\* The conditions rule sets are built from.
ExactChoices ==
    { RuleCondition(EXACT_TEXT_MATCH, None, Some(T_Net), TRUE, None, None, Some(5)),
      RuleCondition(EXACT_TEXT_MATCH, None, Some(T_Net), FALSE, None, None, Some(5)),
      RuleCondition(EXACT_TEXT_MATCH, None, Some(<<>>), TRUE, None, None, Some(5)),
      RuleCondition(EXACT_TEXT_MATCH, Some(T_BC1), Some(T_12), TRUE, None, None, Some(5)),
      RuleCondition(EXACT_TEXT_MATCH, Some(T_BC1), None, TRUE, None, None, Some(5)) }

BarcodeChoices ==
    { RuleCondition(BARCODE_DIMENSIONS, Some(T_BC1), None, TRUE, Some(300), None, Some(5)),
      RuleCondition(BARCODE_DIMENSIONS, Some(T_BC1), None, TRUE, Some(300), Some(100), Some(5)),
      RuleCondition(BARCODE_DIMENSIONS, None, None, TRUE, None, None, Some(5)),
      RuleCondition(BARCODE_DIMENSIONS, Some(T_BC1), None, TRUE, Some(300), None, Some(0)),
      RuleCondition(BARCODE_DIMENSIONS, Some(T_BC1), None, TRUE, Some(300), Some(100), None) }

OtherChoices ==
    { RuleCondition(FONT_SIZE, Some(T_Net), None, TRUE, None, None, Some(5)),
      RuleCondition(SPACING, None, None, TRUE, None, None, Some(5)),
      RuleCondition(ELEMENT_PRESENCE, None, None, TRUE, None, None, Some(5)),
      RuleCondition(TRANSLATION_MATCH, None, Some(T_Net), TRUE, None, None, Some(5)) }

CondChoices == ExactChoices \cup BarcodeChoices \cup OtherChoices

RuleSets == UNION {[1..n -> CondChoices] : n \in 0..MaxConds}

\* What the OCR collaborator can return for the image, in its own order.
OcrChoices ==
    << <<>>,
      <<OCRData(T_Net, 10, 10, 30, 10, <<90, 1>>)>>,
      <<OCRData(T_NET, 10, 10, 30, 10, <<90, 1>>)>>,
      <<OCRData(T_Nets, 10, 10, 40, 10, <<80, 1>>), OCRData(T_123, 10, 60, 30, 10, <<75, 1>>)>>,
      <<OCRData(T_Ned, 10, 10, 30, 10, <<70, 1>>)>>,
      <<OCRData(T_xy, 10, 10, 20, 10, <<60, 1>>)>>,
      <<OCRData(T_WT, 50, 11, 20, 10, <<80, 1>>), OCRData(T_Nets, 10, 10, 30, 10, <<90, 1>>)>>,
      <<OCRData(T_Nex, 10, 40, 30, 10, <<85, 1>>), OCRData(T_Ned, 10, 10, 30, 10, <<70, 1>>),
        OCRData(T_12, 60, 40, 20, 10, <<95, 1>>)>> >>

\* visual_analysis.detect_and_measure_barcode: one detection.
Barcode(data, box, w, h) ==
    [data |-> data, type |-> "EAN13", bounding_box |-> box,
     measured_width_mm |-> w, measured_height_mm |-> h]

\* What the barcode collaborator can return for the image.
BarcodeDetections ==
    << <<>>,
      <<Barcode(T_12, BoundingBox(100, 60, 354, 118), 302, 100)>>,
      <<Barcode(T_12, BoundingBox(100, 60, 347, 118), 294, 100)>>,
      <<Barcode(T_12, BoundingBox(100, 60, 348, 112), 295, 95)>>,
      <<Barcode(T_12, BoundingBox(100, 60, 350, 111), 296, 94)>>,
      <<Barcode(T_99, BoundingBox(100, 60, 354, 118), 300, 100)>>,
      <<Barcode(T_99, BoundingBox(100, 60, 354, 118), 300, 100),
        Barcode(T_12, BoundingBox(20, 200, 360, 124), 305, 105),
        Barcode(T_12, BoundingBox(20, 400, 354, 118), 300, 100)>> >>

\* The uploaded images, each by what the two collaborators find in it:
\* every text content with some barcode content, and every barcode
\* content beside the text "Net".
Images ==
    {[ocr |-> OcrChoices[k], barcodes |-> BarcodeDetections[((k - 1) % Len(BarcodeDetections)) + 1]]
        : k \in 1..Len(OcrChoices)}
    \cup
    {[ocr |-> OcrChoices[2], barcodes |-> BarcodeDetections[k]] : k \in 1..Len(BarcodeDetections)}

\* The longest fragment list of the runs that look at the pool.
MaxFrags == 3

\* The fragments those lists are made of: "Net" and "WT" on one line; a
\* second "Net" lower and further left, whose midpoint is 5 from WT's
\* and 7 (0.7 times the height) from the first Net's; two fragments of
\* height 0 at the same top; "Ned" beside them.
Fragments ==
    { OCRData(T_Net, 10, 10, 30, 10, <<90, 1>>),
      OCRData(T_WT, 50, 12, 20, 10, <<85, 1>>),
      OCRData(T_Net, 5, 17, 30, 10, <<80, 1>>),
      OCRData(T_dashes, 10, 40, 20, 0, <<60, 1>>),
      OCRData(T_xy, 60, 40, 10, 0, <<50, 1>>),
      OCRData(T_Ned, 40, 36, 30, 10, <<70, 1>>) }

\* The lists of distinct fragments, in any order.
FragmentLists ==
    UNION {{f \in [1..n -> Fragments] : \A j, k \in 1..n : j # k => f[j] # f[k]}
              : n \in 0..MaxFrags}

TextImages == {[ocr |-> f, barcodes |-> <<>>] : f \in FragmentLists}

\* Their rule sets: one condition of each branch, or none.
TextConds ==
    { RuleCondition(EXACT_TEXT_MATCH, None, Some(T_Net), TRUE, None, None, Some(5)),
      RuleCondition(EXACT_TEXT_MATCH, None, Some(T_dashes), TRUE, None, None, Some(5)),
      RuleCondition(EXACT_TEXT_MATCH, None, Some(T_Nets), TRUE, None, None, Some(5)),
      RuleCondition(FONT_SIZE, Some(T_Net), None, TRUE, None, None, Some(5)),
      RuleCondition(BARCODE_DIMENSIONS, None, None, TRUE, None, None, Some(5)),
      RuleCondition(SPACING, None, None, TRUE, None, None, Some(5)) }

TextRuleSets == {<<>>} \cup {<<c>> : c \in TextConds}

\* The longest rule set of the runs that look at the companion rule.
MaxCompanions == 3

\* Their conditions: a barcode rule for 'BC1' and one without a target,
\* text rules for 'BC1' without and with a payload, a text rule without a
\* target, and one condition of each other branch.
CompanionConds ==
    { RuleCondition(BARCODE_DIMENSIONS, Some(T_BC1), None, TRUE, Some(300), None, Some(5)),
      RuleCondition(BARCODE_DIMENSIONS, None, None, TRUE, Some(300), None, Some(5)),
      RuleCondition(EXACT_TEXT_MATCH, Some(T_BC1), None, TRUE, None, None, Some(5)),
      RuleCondition(EXACT_TEXT_MATCH, Some(T_BC1), Some(T_12), TRUE, None, None, Some(5)),
      RuleCondition(EXACT_TEXT_MATCH, None, Some(T_12), TRUE, None, None, Some(5)),
      RuleCondition(FONT_SIZE, Some(T_Net), None, TRUE, None, None, Some(5)),
      RuleCondition(SPACING, None, None, TRUE, None, None, Some(5)) }

\* The rule sets of distinct conditions, in any order.
CompanionRuleSets ==
    UNION {{f \in [1..n -> CompanionConds] : \A j, k \in 1..n : j # k => f[j] # f[k]}
              : n \in 0..MaxCompanions}

\* Their images: the text "12" beside a barcode "12", and beside a
\* barcode "99".
CompanionImages ==
    {[ocr |-> <<OCRData(T_12, 60, 40, 20, 10, <<95, 1>>)>>, barcodes |-> BarcodeDetections[k]]
        : k \in {2, 6}}

\* The values of sensitivity and of sensitivity_override that are tried.
Sensitivities == {0, 50, 100}

\* The conditions of the runs that vary them: a text rule, a barcode rule
\* with its companion and a FONT_SIZE rule, each without an override and
\* with either extreme, and a SPACING rule.
SensitivityConds ==
    { [c EXCEPT !.sensitivity_override = o] :
        c \in { RuleCondition(EXACT_TEXT_MATCH, None, Some(T_Net), TRUE, None, None, Some(5)),
                RuleCondition(EXACT_TEXT_MATCH, Some(T_BC1), Some(T_12), TRUE, None, None, Some(5)),
                RuleCondition(BARCODE_DIMENSIONS, Some(T_BC1), None, TRUE, Some(300), None, Some(5)),
                RuleCondition(FONT_SIZE, Some(T_Net), None, TRUE, None, None, Some(5)) },
        o \in {None, Some(0), Some(100)} }
    \cup { RuleCondition(SPACING, None, None, TRUE, None, None, Some(5)) }

SensitivityRuleSets == UNION {[1..n -> SensitivityConds] : n \in 0..MaxConds}

\* Their images: an exact, a near and a low match for "Net", each beside
\* a barcode "12".
SensitivityImages ==
    {[ocr |-> OcrChoices[k], barcodes |-> BarcodeDetections[k]] : k \in {2, 4, 5}}

\* The inputs of two analyses that run at the same time: an exact match
\* beside a barcode of the right size and a near match beside one too
\* small, and one condition of each branch.
ConcurrentImages ==
    {[ocr |-> OcrChoices[k], barcodes |-> BarcodeDetections[k]] : k \in {2, 4}}

ConcurrentRuleSets ==
    {<<c>> : c \in
        { RuleCondition(EXACT_TEXT_MATCH, None, Some(T_Net), TRUE, None, None, Some(5)),
          RuleCondition(BARCODE_DIMENSIONS, None, None, TRUE, None, None, Some(5)),
          RuleCondition(FONT_SIZE, Some(T_Net), None, TRUE, None, None, Some(5)),
          RuleCondition(SPACING, None, None, TRUE, None, None, Some(5)) }}

\* The texts a call of get_text_similarity_ratio on its own is given: the
\* empty one, one blank, "--", and texts with one or two words.
Texts ==
    {<<>>, <<SPACE>>, T_dashes, T_Net, T_NET, T_Nets, T_Ned, T_xy, T_WT,
     T_Net \o <<SPACE>> \o T_WT}

\* ----------------------------------------------------------------- state
VARIABLES
    pc,                        \* where process_label_analysis_sync stands
    image,                     \* the content of the file at image_path
    conditions,                \* ruleset.conditions
    all_ocr_data,
    detected_barcodes,
    searchable_text_items,
    i,                         \* conditions evaluated so far (the loop index)
    highlights,
    faults_without_highlights,
    matches_count,
    mismatches_count,
    result_object,             \* None until the result is constructed
    uploads_dir,               \* the files the engine has put in UPLOADS_DIR
    processed_image_path_str,
    analysis_results,          \* the rows of the analysis_results table
    analysis_id,               \* parameter of process_label_analysis_sync
    sensitivity,               \* parameter of process_label_analysis_sync
    suspended,                 \* the frame of a second analysis, waiting at an await
    background_tasks,          \* the files check_label_compliance has scheduled for cleanup
    call                       \* a call of get_text_similarity_ratio on its own

\* What no step of one analysis changes.
outside == <<analysis_id, sensitivity, suspended, background_tasks, call>>

\* What the steps before the end of the loop leave alone.
tail == <<uploads_dir, processed_image_path_str, analysis_results>>

vars == <<pc, image, conditions, all_ocr_data, detected_barcodes, searchable_text_items, i,
          highlights, faults_without_highlights, matches_count, mismatches_count,
          result_object, uploads_dir, processed_image_path_str, analysis_results,
          analysis_id, sensitivity, suspended, background_tasks, call>>

\* One analysis on its own: the first id, the default sensitivity of
\* check_label_compliance (Form(50)), no other coroutine, nothing
\* scheduled, no separate call.
Alone ==
    /\ analysis_id = 1
    /\ sensitivity = 50
    /\ suspended = None
    /\ background_tasks = <<>>
    /\ call = None

Init ==
    /\ pc = "ocr"
    /\ image \in Images
    /\ conditions \in RuleSets
    /\ all_ocr_data = <<>>
    /\ detected_barcodes = <<>>
    /\ searchable_text_items = <<>>
    /\ i = 0
    /\ highlights = <<>>
    /\ faults_without_highlights = <<>>
    /\ matches_count = 0
    /\ mismatches_count = 0
    /\ result_object = None
    /\ uploads_dir = {}
    /\ processed_image_path_str = None
    /\ analysis_results = <<>>
    /\ Alone

\* all_ocr_data = await ocr.extract_text_from_image(image_path)
ExtractText ==
    /\ pc = "ocr"
    /\ all_ocr_data' = image.ocr
    /\ pc' = "barcode"
    /\ UNCHANGED <<outside, image, conditions, detected_barcodes, searchable_text_items, i, highlights,
                   faults_without_highlights, matches_count, mismatches_count, result_object, tail>>

\* extract_text_from_image raises ConfigurationError or OCRProcessingError.
ExtractTextFails ==
    /\ pc = "ocr"
    /\ pc' = "raised"
    /\ UNCHANGED <<outside, image, conditions, all_ocr_data, detected_barcodes, searchable_text_items, i,
                   highlights, faults_without_highlights, matches_count, mismatches_count,
                   result_object, tail>>

\* detected_barcodes = await visual_analysis.detect_and_measure_barcode(image_path)
DetectBarcodes ==
    /\ pc = "barcode"
    /\ detected_barcodes' = image.barcodes
    /\ pc' = "reconstruct"
    /\ UNCHANGED <<outside, image, conditions, all_ocr_data, searchable_text_items, i, highlights,
                   faults_without_highlights, matches_count, mismatches_count, result_object, tail>>

\* Mutation: the failure of the barcode detection is swallowed and the
\* analysis goes on as if the image held no barcode.
DetectBarcodesFails_Swallowed ==
    /\ pc = "barcode"
    /\ detected_barcodes' = <<>>
    /\ pc' = "reconstruct"
    /\ UNCHANGED <<outside, image, conditions, all_ocr_data, searchable_text_items, i, highlights,
                   faults_without_highlights, matches_count, mismatches_count, result_object, tail>>

\* detect_and_measure_barcode raises VisualAnalysisError.
DetectBarcodesFails ==
    /\ pc = "barcode"
    /\ pc' = "raised"
    /\ UNCHANGED <<outside, image, conditions, all_ocr_data, detected_barcodes, searchable_text_items, i,
                   highlights, faults_without_highlights, matches_count, mismatches_count,
                   result_object, tail>>

\* reconstruct_text_blocks sorts all_ocr_data in place; the pool is the
\* sorted fragments followed by the line blocks.
Reconstruct ==
    /\ pc = "reconstruct"
    /\ all_ocr_data' = (IF all_ocr_data = <<>> THEN <<>> ELSE SortByTopLeft(all_ocr_data))
    /\ searchable_text_items' = all_ocr_data' \o reconstruct_text_blocks(all_ocr_data)
    /\ pc' = "rules"
    /\ UNCHANGED <<outside, image, conditions, detected_barcodes, i, highlights, faults_without_highlights,
                   matches_count, mismatches_count, result_object, tail>>

\* The condition the loop is at, and its rule_id_ref.
Condition == conditions[i + 1]

CurrentRef == rule_id_ref(i, Condition.type)

InLoop == pc = "rules" /\ i < Len(conditions)

\* One iteration of the loop ends: the appends and increments are done
\* and the loop moves to the next condition.
Apply(e) ==
    /\ highlights' = highlights \o e.highlights
    /\ faults_without_highlights' = faults_without_highlights \o e.faults
    /\ matches_count' = matches_count + e.matches
    /\ mismatches_count' = mismatches_count + e.mismatches
    /\ i' = i + 1
    /\ UNCHANGED <<outside, pc, image, conditions, all_ocr_data, detected_barcodes, searchable_text_items,
                   result_object, tail>>

\* Mutation: the rule's sensitivity_override, or without one the global
\* sensitivity, decides whether a text condition is checked at all: at 0
\* it is skipped.
EvalExactTextMatch_BySensitivity ==
    /\ InLoop
    /\ Condition.type = EXACT_TEXT_MATCH
    /\ Apply(IF (IF IsNone(Condition.sensitivity_override) THEN sensitivity
                 ELSE The(Condition.sensitivity_override)) = 0
             THEN NoEffect
             ELSE ExactTextOutcome(CurrentRef, Condition, searchable_text_items))

EvalExactTextMatch ==
    /\ InLoop
    /\ Condition.type = EXACT_TEXT_MATCH
    /\ Apply(ExactTextOutcome(CurrentRef, Condition, searchable_text_items))

EvalFontSize ==
    /\ InLoop
    /\ Condition.type = FONT_SIZE
    /\ Apply(FontSizeOutcome(CurrentRef, Condition, searchable_text_items))

\* Mutation: the detected barcodes are searched in either direction.
EvalBarcodeDimensions_AnyOrder ==
    /\ InLoop
    /\ Condition.type = BARCODE_DIMENSIONS
    /\ \E barcodes \in {detected_barcodes,
                        [k \in 1..Len(detected_barcodes) |->
                            detected_barcodes[Len(detected_barcodes) + 1 - k]]} :
          Apply(BarcodeOutcome(CurrentRef, Condition, conditions, barcodes))

EvalBarcodeDimensions ==
    /\ InLoop
    /\ Condition.type = BARCODE_DIMENSIONS
    /\ Apply(BarcodeOutcome(CurrentRef, Condition, conditions, detected_barcodes))

EvalOther ==
    /\ InLoop
    /\ Condition.type \notin {EXACT_TEXT_MATCH, FONT_SIZE, BARCODE_DIMENSIONS}
    /\ Apply(OtherOutcome(CurrentRef, Condition))

\* Mutation: any mismatch is a critical failure.
OverallStatus_Critical(mismatches) == IF mismatches = 0 THEN "pass" ELSE "fail_critical"

\* Mutation: one mismatch is let through.
OverallStatus_Lenient(mismatches) == IF mismatches <= 1 THEN "pass" ELSE "fail_minor"

\* overall_status
OverallStatus(mismatches) == IF mismatches = 0 THEN "pass" ELSE "fail_minor"

\* The loop has ended.
AfterLoop == pc = "rules" /\ i = Len(conditions)

\* output_image_path = UPLOADS_DIR / f"processed_{analysis_id}.png"
\* A file name is kept as <<stem, id, suffix>>.
\* Mutation: one name for the processed image of every analysis.
OUTPUT_IMAGE_Shared == <<"processed_", 0, ".png">>

OUTPUT_IMAGE == <<"processed_", analysis_id, ".png">>

\* str(stored_image_path.relative_to(STATIC_SERVED_DIR))
RELATIVE_IMAGE_PATH == <<"processed_labels/", analysis_id, ".png">>

\* image_utils.draw_bounding_boxes_on_image writes the highlighted image.
DrawBoundingBoxes ==
    /\ AfterLoop
    /\ uploads_dir' = uploads_dir \cup {OUTPUT_IMAGE}
    /\ pc' = "store"
    /\ UNCHANGED <<outside, image, conditions, all_ocr_data, detected_barcodes, searchable_text_items, i,
                   highlights, faults_without_highlights, matches_count, mismatches_count,
                   result_object, processed_image_path_str, analysis_results>>

\* draw_bounding_boxes_on_image raises; the except clause logs it.
DrawBoundingBoxesFails ==
    /\ AfterLoop
    /\ pc' = "construct"
    /\ UNCHANGED <<outside, image, conditions, all_ocr_data, detected_barcodes, searchable_text_items, i,
                   highlights, faults_without_highlights, matches_count, mismatches_count,
                   result_object, tail>>

\* file_processing.store_processed_image copies the image; the relative
\* path is kept for the database row.
StoreProcessedImage ==
    /\ pc = "store"
    /\ processed_image_path_str' = Some(RELATIVE_IMAGE_PATH)
    /\ pc' = "cleanup"
    /\ UNCHANGED <<outside, image, conditions, all_ocr_data, detected_barcodes, searchable_text_items, i,
                   highlights, faults_without_highlights, matches_count, mismatches_count,
                   result_object, uploads_dir, analysis_results>>

\* store_processed_image raises FileProcessingError; the except clause
\* logs it and cleanup_temp_file is not reached.
StoreProcessedImageFails ==
    /\ pc = "store"
    /\ pc' = "construct"
    /\ UNCHANGED <<outside, image, conditions, all_ocr_data, detected_barcodes, searchable_text_items, i,
                   highlights, faults_without_highlights, matches_count, mismatches_count,
                   result_object, tail>>

\* file_processing.cleanup_temp_file(output_image_path)
CleanupTempFile ==
    /\ pc = "cleanup"
    /\ uploads_dir' = uploads_dir \ {OUTPUT_IMAGE}
    /\ pc' = "construct"
    /\ UNCHANGED <<outside, image, conditions, all_ocr_data, detected_barcodes, searchable_text_items, i,
                   highlights, faults_without_highlights, matches_count, mismatches_count,
                   result_object, processed_image_path_str, analysis_results>>

\* The result constructed after the loop (summary and LabelAnalysisResult).
ConstructResult ==
    /\ pc = "construct"
    /\ result_object' = Some(
         [overall_status |-> OverallStatus(mismatches_count),
          summary |-> [total_rules_defined |-> Len(conditions),
                       matches |-> matches_count,
                       mismatches_or_errors_in_rules |-> mismatches_count,
                       faults_without_highlights |-> faults_without_highlights],
          highlights |-> highlights])
    /\ pc' = "persist"
    /\ UNCHANGED <<outside, image, conditions, all_ocr_data, detected_barcodes, searchable_text_items, i,
                   highlights, faults_without_highlights, matches_count, mismatches_count, tail>>

\* Mutation: the insert is made and the engine stays there, so that it is
\* made again.
CreateAnalysis_Repeated ==
    /\ pc = "persist"
    /\ analysis_results' = Append(analysis_results,
         [result_data |-> The(result_object), initial_ruleset |-> conditions,
          processed_image_path |-> processed_image_path_str])
    /\ UNCHANGED <<outside, pc, image, conditions, all_ocr_data, detected_barcodes, searchable_text_items,
                   i, highlights, faults_without_highlights, matches_count, mismatches_count,
                   result_object, uploads_dir, processed_image_path_str>>

\* crud_analysis.create_analysis inserts one row; the result is returned.
CreateAnalysis ==
    /\ pc = "persist"
    /\ analysis_results' = Append(analysis_results,
         [result_data |-> The(result_object), initial_ruleset |-> conditions,
          processed_image_path |-> processed_image_path_str])
    /\ pc' = "done"
    /\ UNCHANGED <<outside, image, conditions, all_ocr_data, detected_barcodes, searchable_text_items, i,
                   highlights, faults_without_highlights, matches_count, mismatches_count,
                   result_object, uploads_dir, processed_image_path_str>>

\* Mutation: the DatabaseError is not caught.
CreateAnalysisFails_Propagates ==
    /\ pc = "persist"
    /\ pc' = "raised"
    /\ UNCHANGED <<outside, image, conditions, all_ocr_data, detected_barcodes, searchable_text_items, i,
                   highlights, faults_without_highlights, matches_count, mismatches_count,
                   result_object, tail>>

\* create_analysis raises DatabaseError; the except clause logs it and the
\* result is returned all the same.
CreateAnalysisFails ==
    /\ pc = "persist"
    /\ pc' = "done"
    /\ UNCHANGED <<outside, image, conditions, all_ocr_data, detected_barcodes, searchable_text_items, i,
                   highlights, faults_without_highlights, matches_count, mismatches_count,
                   result_object, tail>>

Next ==
    \/ ExtractText
    \/ ExtractTextFails
    \/ DetectBarcodes
    \/ DetectBarcodesFails
    \/ Reconstruct
    \/ EvalExactTextMatch
    \/ EvalFontSize
    \/ EvalBarcodeDimensions
    \/ EvalOther
    \/ DrawBoundingBoxes
    \/ DrawBoundingBoxesFails
    \/ StoreProcessedImage
    \/ StoreProcessedImageFails
    \/ CleanupTempFile
    \/ ConstructResult
    \/ CreateAnalysis
    \/ CreateAnalysisFails

Spec == Init /\ [][Next]_vars

\* ------------------------------------------- exceptions inside the loop
\* The evaluation of a condition without an exception.
BranchOutcome(k) ==
    LET condition == conditions[k]
        ref == rule_id_ref(k - 1, condition.type)
    IN  IF condition.type = EXACT_TEXT_MATCH
        THEN ExactTextOutcome(ref, condition, searchable_text_items)
        ELSE IF condition.type = FONT_SIZE
        THEN FontSizeOutcome(ref, condition, searchable_text_items)
        ELSE IF condition.type = BARCODE_DIMENSIONS
        THEN BarcodeOutcome(ref, condition, conditions, detected_barcodes)
        ELSE OtherOutcome(ref, condition)

\* What a branch has done when its last call raises. The perfect and the
\* near match build the highlight before they count; every other branch
\* counts first, the missing text also logs its fault first, and the
\* unimplemented types end with the append to the fault log.
DoneBeforeLastCall(k) ==
    LET condition == conditions[k]
        e == BranchOutcome(k)
    IN  IF condition.type = EXACT_TEXT_MATCH
        THEN IF BestMatch(The(condition.expected_text), searchable_text_items).score
                    >= NEAR_MATCH_THRESHOLD
             THEN NoEffect
             ELSE [e EXCEPT !.highlights = <<>>]
        ELSE IF condition.type = BARCODE_DIMENSIONS
        THEN [e EXCEPT !.highlights = <<>>]
        ELSE [e EXCEPT !.faults = <<>>]

\* Mutation: the except clause logs the failure and does not count it.
ExceptClause_NotCounted(condition, done) ==
    Effect(done.highlights,
           Append(done.faults,
                  [msg |-> "Failed to process rule for '{target}'.",
                   target |-> IF Falsy(condition.target_element_description)
                              THEN Lit("Unknown Target")
                              ELSE Text(The(condition.target_element_description))]),
           done.matches, done.mismatches)

\* The except clause, after the branch has done `done`.
ExceptClause(condition, done) ==
    Effect(done.highlights,
           Append(done.faults,
                  [msg |-> "Failed to process rule for '{target}'.",
                   target |-> IF Falsy(condition.target_element_description)
                              THEN Lit("Unknown Target")
                              ELSE Text(The(condition.target_element_description))]),
           done.matches, done.mismatches + 1)

\* A statement inside the try block raises: the first one of the branch,
\* or its last call. A condition that is skipped calls nothing.
EvalRaises ==
    /\ InLoop
    /\ ~(Condition.type = EXACT_TEXT_MATCH /\ Falsy(Condition.expected_text))
    /\ \E done \in {NoEffect, DoneBeforeLastCall(i + 1)} :
          Apply(ExceptClause(Condition, done))

NextFaults == Next \/ EvalRaises

\* The images the runs with exceptions are given: no text and no barcode,
\* a near match, a low similarity, and an exact match beside a barcode of
\* the right size and beside three barcodes.
FaultImages ==
    {[ocr |-> OcrChoices[k], barcodes |-> BarcodeDetections[k]] : k \in {1, 4, 5}}
    \cup
    {[ocr |-> OcrChoices[2], barcodes |-> BarcodeDetections[k]] : k \in {2, 7}}

InitFaults ==
    /\ pc = "ocr"
    /\ image \in FaultImages
    /\ conditions \in RuleSets
    /\ all_ocr_data = <<>>
    /\ detected_barcodes = <<>>
    /\ searchable_text_items = <<>>
    /\ i = 0
    /\ highlights = <<>>
    /\ faults_without_highlights = <<>>
    /\ matches_count = 0
    /\ mismatches_count = 0
    /\ result_object = None
    /\ uploads_dir = {}
    /\ processed_image_path_str = None
    /\ analysis_results = <<>>
    /\ Alone

\* The program with exceptions raised inside the loop body.
SpecFaults == InitFaults /\ [][NextFaults]_vars

\* The program on the fragment lists.
InitText ==
    /\ pc = "ocr"
    /\ image \in TextImages
    /\ conditions \in TextRuleSets
    /\ all_ocr_data = <<>>
    /\ detected_barcodes = <<>>
    /\ searchable_text_items = <<>>
    /\ i = 0
    /\ highlights = <<>>
    /\ faults_without_highlights = <<>>
    /\ matches_count = 0
    /\ mismatches_count = 0
    /\ result_object = None
    /\ uploads_dir = {}
    /\ processed_image_path_str = None
    /\ analysis_results = <<>>
    /\ Alone

SpecText == InitText /\ [][Next]_vars

\* The program on the rule sets with companion rules.
InitCompanion ==
    /\ pc = "ocr"
    /\ image \in CompanionImages
    /\ conditions \in CompanionRuleSets
    /\ all_ocr_data = <<>>
    /\ detected_barcodes = <<>>
    /\ searchable_text_items = <<>>
    /\ i = 0
    /\ highlights = <<>>
    /\ faults_without_highlights = <<>>
    /\ matches_count = 0
    /\ mismatches_count = 0
    /\ result_object = None
    /\ uploads_dir = {}
    /\ processed_image_path_str = None
    /\ analysis_results = <<>>
    /\ Alone

SpecCompanion == InitCompanion /\ [][Next]_vars

\* The program with the sensitivity and the overrides varied.
InitSensitivity ==
    /\ pc = "ocr"
    /\ image \in SensitivityImages
    /\ conditions \in SensitivityRuleSets
    /\ all_ocr_data = <<>>
    /\ detected_barcodes = <<>>
    /\ searchable_text_items = <<>>
    /\ i = 0
    /\ highlights = <<>>
    /\ faults_without_highlights = <<>>
    /\ matches_count = 0
    /\ mismatches_count = 0
    /\ result_object = None
    /\ uploads_dir = {}
    /\ processed_image_path_str = None
    /\ analysis_results = <<>>
    /\ analysis_id = 1
    /\ sensitivity \in Sensitivities
    /\ suspended = None
    /\ background_tasks = <<>>
    /\ call = None

SpecSensitivity == InitSensitivity /\ [][Next]_vars

\* ------------------------------------- the request around the analysis
\* labels.check_label_compliance from the saving of the upload on.
\* file_path of save_upload_file_temp: f"{uuid4()}{suffix}" in UPLOADS_DIR
\* (0 stands for the uuid).
SAVED_IMAGE == <<"", 0, ".png">>

\* saved_image_path = await file_processing.save_upload_file_temp(...)
SaveUploadFileTemp ==
    /\ pc = "save"
    /\ uploads_dir' = uploads_dir \cup {SAVED_IMAGE}
    /\ pc' = "ocr"
    /\ UNCHANGED <<outside, image, conditions, all_ocr_data, detected_barcodes,
                   searchable_text_items, i, highlights, faults_without_highlights,
                   matches_count, mismatches_count, result_object, processed_image_path_str,
                   analysis_results>>

\* save_upload_file_temp raises FileProcessingError, before the file is
\* opened or while it is written; the request ends with an HTTPException.
SaveUploadFileTempFails ==
    /\ pc = "save"
    /\ \E written \in {{}, {SAVED_IMAGE}} : uploads_dir' = uploads_dir \cup written
    /\ pc' = "http_error"
    /\ UNCHANGED <<outside, image, conditions, all_ocr_data, detected_barcodes,
                   searchable_text_items, i, highlights, faults_without_highlights,
                   matches_count, mismatches_count, result_object, processed_image_path_str,
                   analysis_results>>

\* The analysis has returned its result:
\* background_tasks.add_task(file_processing.cleanup_temp_file, saved_image_path)
AddCleanupTask ==
    /\ pc = "done"
    /\ background_tasks' = Append(background_tasks, SAVED_IMAGE)
    /\ pc' = "respond"
    /\ UNCHANGED <<image, conditions, all_ocr_data, detected_barcodes, searchable_text_items, i,
                   highlights, faults_without_highlights, matches_count, mismatches_count,
                   result_object, tail, analysis_id, sensitivity, suspended, call>>

\* The response is sent and the scheduled tasks run: cleanup_temp_file
\* deletes each scheduled file.
RunBackgroundTasks ==
    /\ pc = "respond"
    /\ uploads_dir' = uploads_dir \ {background_tasks[k] : k \in 1..Len(background_tasks)}
    /\ background_tasks' = <<>>
    /\ pc' = "closed"
    /\ UNCHANGED <<image, conditions, all_ocr_data, detected_barcodes, searchable_text_items, i,
                   highlights, faults_without_highlights, matches_count, mismatches_count,
                   result_object, processed_image_path_str, analysis_results,
                   analysis_id, sensitivity, suspended, call>>

\* The analysis has raised: except CoreServiceError / except Exception
\* raise an HTTPException.
RaiseHTTPException ==
    /\ pc = "raised"
    /\ pc' = "http_error"
    /\ UNCHANGED <<outside, image, conditions, all_ocr_data, detected_barcodes,
                   searchable_text_items, i, highlights, faults_without_highlights,
                   matches_count, mismatches_count, result_object, tail>>

NextRequest ==
    \/ Next
    \/ SaveUploadFileTemp
    \/ SaveUploadFileTempFails
    \/ AddCleanupTask
    \/ RunBackgroundTasks
    \/ RaiseHTTPException

InitRequest ==
    /\ pc = "save"
    /\ image \in FaultImages
    /\ conditions \in TextRuleSets
    /\ all_ocr_data = <<>>
    /\ detected_barcodes = <<>>
    /\ searchable_text_items = <<>>
    /\ i = 0
    /\ highlights = <<>>
    /\ faults_without_highlights = <<>>
    /\ matches_count = 0
    /\ mismatches_count = 0
    /\ result_object = None
    /\ uploads_dir = {}
    /\ processed_image_path_str = None
    /\ analysis_results = <<>>
    /\ Alone

SpecRequest == InitRequest /\ [][NextRequest]_vars

\* ---------------------------------------------- two analyses at a time
\* The frame of the coroutine that runs: its parameters and its locals.
Frame ==
    [pc |-> pc, image |-> image, conditions |-> conditions, all_ocr_data |-> all_ocr_data,
     detected_barcodes |-> detected_barcodes, searchable_text_items |-> searchable_text_items,
     i |-> i, highlights |-> highlights, faults_without_highlights |-> faults_without_highlights,
     matches_count |-> matches_count, mismatches_count |-> mismatches_count,
     result_object |-> result_object, processed_image_path_str |-> processed_image_path_str,
     analysis_id |-> analysis_id, sensitivity |-> sensitivity]

\* The coroutine stands at an await (text extraction, barcode detection,
\* drawing, storing, cleanup, database write) or has ended.
AtAwait ==
    \/ pc \in {"ocr", "barcode", "store", "cleanup", "persist"}
    \/ AfterLoop
    \/ pc \in {"done", "raised"}

\* The event loop gives the turn to the other coroutine: the frames are
\* exchanged, the upload directory and the database stay.
Switch ==
    /\ suspended # None
    /\ AtAwait
    /\ suspended' = Some(Frame)
    /\ pc' = The(suspended).pc
    /\ image' = The(suspended).image
    /\ conditions' = The(suspended).conditions
    /\ all_ocr_data' = The(suspended).all_ocr_data
    /\ detected_barcodes' = The(suspended).detected_barcodes
    /\ searchable_text_items' = The(suspended).searchable_text_items
    /\ i' = The(suspended).i
    /\ highlights' = The(suspended).highlights
    /\ faults_without_highlights' = The(suspended).faults_without_highlights
    /\ matches_count' = The(suspended).matches_count
    /\ mismatches_count' = The(suspended).mismatches_count
    /\ result_object' = The(suspended).result_object
    /\ processed_image_path_str' = The(suspended).processed_image_path_str
    /\ analysis_id' = The(suspended).analysis_id
    /\ sensitivity' = The(suspended).sensitivity
    /\ UNCHANGED <<uploads_dir, analysis_results, background_tasks, call>>

NextConcurrent == Next \/ Switch

\* The frame of an analysis that has been called and has not run yet.
NewFrame(id, img, conds) ==
    [pc |-> "ocr", image |-> img, conditions |-> conds, all_ocr_data |-> <<>>,
     detected_barcodes |-> <<>>, searchable_text_items |-> <<>>,
     i |-> 0, highlights |-> <<>>, faults_without_highlights |-> <<>>,
     matches_count |-> 0, mismatches_count |-> 0,
     result_object |-> None, processed_image_path_str |-> None,
     analysis_id |-> id, sensitivity |-> 50]

InitConcurrent ==
    /\ pc = "ocr"
    /\ image \in ConcurrentImages
    /\ conditions \in ConcurrentRuleSets
    /\ all_ocr_data = <<>>
    /\ detected_barcodes = <<>>
    /\ searchable_text_items = <<>>
    /\ i = 0
    /\ highlights = <<>>
    /\ faults_without_highlights = <<>>
    /\ matches_count = 0
    /\ mismatches_count = 0
    /\ result_object = None
    /\ uploads_dir = {}
    /\ processed_image_path_str = None
    /\ analysis_results = <<>>
    /\ analysis_id = 1
    /\ sensitivity = 50
    /\ suspended \in {Some(NewFrame(2, img, conds)) :
                          img \in ConcurrentImages, conds \in ConcurrentRuleSets}
    /\ background_tasks = <<>>
    /\ call = None

SpecConcurrent == InitConcurrent /\ [][NextConcurrent]_vars

\* ------------------------------------- get_text_similarity_ratio alone
\* No analysis: the engine's variables stay as they are.
Idle ==
    /\ pc = "similarity"
    /\ image = [ocr |-> <<>>, barcodes |-> <<>>]
    /\ conditions = <<>>
    /\ all_ocr_data = <<>>
    /\ detected_barcodes = <<>>
    /\ searchable_text_items = <<>>
    /\ i = 0
    /\ highlights = <<>>
    /\ faults_without_highlights = <<>>
    /\ matches_count = 0
    /\ mismatches_count = 0
    /\ result_object = None
    /\ uploads_dir = {}
    /\ processed_image_path_str = None
    /\ analysis_results = <<>>
    /\ analysis_id = 1
    /\ sensitivity = 50
    /\ suspended = None
    /\ background_tasks = <<>>

InitSimilarity ==
    /\ Idle
    /\ call \in {Some([text1 |-> a, text2 |-> b, returned |-> None, scorer_calls |-> <<>>])
                    : a \in Texts, b \in Texts}

\* get_text_similarity_ratio(text1, text2) is called and returns.
GetTextSimilarityRatio ==
    /\ pc = "similarity"
    /\ call # None
    /\ The(call).returned = None
    /\ call' = Some([The(call) EXCEPT
                       !.returned = Some(get_text_similarity_ratio(The(call).text1,
                                                                   The(call).text2)),
                       !.scorer_calls = ScorerCalls(The(call).text1, The(call).text2)])
    /\ UNCHANGED <<pc, image, conditions, all_ocr_data, detected_barcodes, searchable_text_items,
                   i, highlights, faults_without_highlights, matches_count, mismatches_count,
                   result_object, tail, analysis_id, sensitivity, suspended, background_tasks>>

NextSimilarity == GetTextSimilarityRatio

SpecSimilarity == InitSimilarity /\ [][NextSimilarity]_vars

\* ----------------------------------------------------------------- claims
\* Vocabulary of the properties, stated independently of the engine's own
\* helpers wherever the engine could get it wrong.

\* The sentinel box of a fault without a location.
SentinelBox == [x |-> 5, y |-> 5, width |-> 20, height |-> 20]

TextEmptyOrAbsent(opt_text) == opt_text = {} \/ opt_text = {<<>>}

\* The similarity of text t to the pool item k, and the best over the pool.
PoolScore(t, k) == get_text_similarity_ratio(t, searchable_text_items[k].text)

BestScore(t) ==
    LET scores == {PoolScore(t, k) : k \in 1..Len(searchable_text_items)} \cup {0}
    IN  CHOOSE m \in scores : \A x \in scores : x <= m

\* The pool items that attain the best score.
BestItems(t) ==
    {searchable_text_items[k] : k \in {j \in 1..Len(searchable_text_items) :
                                         PoolScore(t, j) = BestScore(t)}}

BoxOf(item) == [x |-> item.left, y |-> item.top, width |-> item.width, height |-> item.height]

\* This step appends exactly one highlight / none.
AppendsOne ==
    /\ Len(highlights') = Len(highlights) + 1
    /\ SubSeq(highlights', 1, Len(highlights)) = highlights

NewHighlight == highlights'[Len(highlights')]

AppendsNone == highlights' = highlights

AppendsFault(entry) == faults_without_highlights' = Append(faults_without_highlights, entry)

\* The loop stands at an EXACT_TEXT_MATCH condition that has a text.
AtExactText ==
    /\ InLoop
    /\ Condition.type = "exact_text_match"
    /\ ~TextEmptyOrAbsent(Condition.expected_text)

ExpectedText == The(Condition.expected_text)

\* After a step: the condition just evaluated and the highlights it left.
Evaluated == conditions[i]

HighlightsOf(k) == {n \in 1..Len(highlights) : highlights[n].rule_id_ref[2] = k}

LastStatusIs(st) ==
    /\ highlights # <<>>
    /\ highlights[Len(highlights)].rule_id_ref[2] = i
    /\ highlights[Len(highlights)].status = st

JustEvaluated(type) == pc = "rules" /\ i >= 1 /\ Evaluated.type = type

StrictlyIncreasing(hs) ==
    \A k, l \in 1..Len(hs) : k < l => hs[k].rule_id_ref[2] < hs[l].rule_id_ref[2]

\* C1: every highlight emitted while evaluating the condition at 0-based
\* position i carries rule_id_ref = rule_<i+1>_<type value>; a condition
\* contributes at most one highlight; the positions encoded in rule_id_ref
\* are strictly increasing along the highlights list.
C1_RuleIdRefOrder ==
    [][InLoop =>
        /\ Len(highlights') <= Len(highlights) + 1
        /\ SubSeq(highlights', 1, Len(highlights)) = highlights
        /\ \A k \in (Len(highlights) + 1)..Len(highlights') :
              highlights'[k].rule_id_ref = <<"rule", i + 1, Condition.type>>
        /\ StrictlyIncreasing(highlights')]_vars

\* Two conditions of different types each left their highlight.
C1_Witness ==
    /\ pc = "rules" /\ i = 2 /\ Len(highlights) = 2
    /\ conditions[1].type # conditions[2].type
    /\ highlights[1].rule_id_ref = <<"rule", 1, conditions[1].type>>
    /\ highlights[2].rule_id_ref = <<"rule", 2, conditions[2].type>>

\* C2: an EXACT_TEXT_MATCH condition whose best score over the pool is at
\* least 0.98 appends exactly one highlight, 'correct', at a best
\* candidate's box; matches + 1; mismatches and the fault log unchanged.
C2_PerfectMatch ==
    [][(AtExactText /\ BestScore(ExpectedText) >= 98) =>
        /\ AppendsOne
        /\ NewHighlight.status = "correct"
        /\ NewHighlight.bounding_box \in {BoxOf(it) : it \in BestItems(ExpectedText)}
        /\ matches_count' = matches_count + 1
        /\ mismatches_count' = mismatches_count
        /\ faults_without_highlights' = faults_without_highlights]_vars

C2_Witness ==
    /\ JustEvaluated("exact_text_match")
    /\ ~TextEmptyOrAbsent(Evaluated.expected_text)
    /\ BestScore(The(Evaluated.expected_text)) >= 98
    /\ LastStatusIs("correct")
    /\ matches_count = 1 /\ mismatches_count = 0

\* C3: an EXACT_TEXT_MATCH condition whose best score is below 0.60 (an
\* empty pool included) appends exactly one highlight, 'wrong', at the
\* sentinel box (5, 5, 20, 20) whatever the candidates' boxes are;
\* mismatches + 1; matches unchanged; the fault log gets
\* "Missing required text: '<expected_text>'".
C3_MissingText ==
    [][(AtExactText /\ BestScore(ExpectedText) < 60) =>
        /\ AppendsOne
        /\ NewHighlight.status = "wrong"
        /\ NewHighlight.bounding_box = SentinelBox
        /\ mismatches_count' = mismatches_count + 1
        /\ matches_count' = matches_count
        /\ AppendsFault([msg |-> "Missing required text: '{expected_text}'",
                         expected_text |-> ExpectedText])]_vars

\* The text is missing although the pool holds candidates, none of them at
\* the sentinel box.
C3_Witness ==
    /\ JustEvaluated("exact_text_match")
    /\ ~TextEmptyOrAbsent(Evaluated.expected_text)
    /\ searchable_text_items # <<>>
    /\ BestScore(The(Evaluated.expected_text)) < 60
    /\ LastStatusIs("wrong")
    /\ highlights[Len(highlights)].bounding_box = SentinelBox
    /\ \A k \in 1..Len(searchable_text_items) : BoxOf(searchable_text_items[k]) # SentinelBox
    /\ faults_without_highlights # <<>>

\* C4: an EXACT_TEXT_MATCH condition whose best score s has
\* 0.60 <= s < 0.98 (near tier and low tier alike) appends exactly one
\* highlight, 'wrong', at the box of a best candidate, which exists;
\* mismatches + 1; nothing is appended to the fault log.
C4_NearOrLowMatch ==
    [][(AtExactText /\ BestScore(ExpectedText) >= 60 /\ BestScore(ExpectedText) < 98) =>
        /\ BestItems(ExpectedText) # {}
        /\ AppendsOne
        /\ NewHighlight.status = "wrong"
        /\ NewHighlight.bounding_box \in {BoxOf(it) : it \in BestItems(ExpectedText)}
        /\ mismatches_count' = mismatches_count + 1
        /\ matches_count' = matches_count
        /\ faults_without_highlights' = faults_without_highlights]_vars

\* One rule set met the near tier with its first condition and the low
\* tier with its second.
C4_Witness ==
    /\ pc = "rules" /\ i = 2 /\ Len(highlights) = 2
    /\ conditions[1].type = "exact_text_match" /\ conditions[2].type = "exact_text_match"
    /\ ~TextEmptyOrAbsent(conditions[1].expected_text)
    /\ ~TextEmptyOrAbsent(conditions[2].expected_text)
    /\ BestScore(The(conditions[1].expected_text)) >= 85
    /\ BestScore(The(conditions[1].expected_text)) < 98
    /\ BestScore(The(conditions[2].expected_text)) >= 60
    /\ BestScore(The(conditions[2].expected_text)) < 85
    /\ highlights[1].status = "wrong" /\ highlights[2].status = "wrong"
    /\ mismatches_count = 2 /\ faults_without_highlights = <<>>

\* C5: an EXACT_TEXT_MATCH condition whose expected_text is empty or absent
\* is skipped: no highlight, no fault-log entry, both counters unchanged,
\* and the loop goes on to the next condition.
C5_SkipEmptyExpectedText ==
    [][(InLoop /\ Condition.type = "exact_text_match"
          /\ TextEmptyOrAbsent(Condition.expected_text)) =>
        /\ AppendsNone
        /\ faults_without_highlights' = faults_without_highlights
        /\ matches_count' = matches_count
        /\ mismatches_count' = mismatches_count
        /\ i' = i + 1 /\ pc' = "rules"]_vars

\* An empty (not absent) expected_text was skipped and the condition after
\* it was evaluated.
C5_Witness ==
    /\ pc = "rules" /\ i = 2
    /\ conditions[1].type = "exact_text_match" /\ conditions[1].expected_text = {<<>>}
    /\ HighlightsOf(1) = {}
    /\ HighlightsOf(2) # {}

\* The best-scoring pool items all spell the expected text with another
\* letter case.
DiffersInCaseOnly(a, b) == a # b /\ LowerStr(a) = LowerStr(b)

\* C6: with case_sensitive = true, a best candidate that clears the
\* perfect threshold but differs from expected_text in letter case gives a
\* 'wrong' highlight and mismatches + 1, not 'correct' and matches + 1.
C6_CaseSensitiveDegrades ==
    [][(/\ AtExactText
        /\ Condition.case_sensitive
        /\ BestScore(ExpectedText) >= 98
        /\ \A it \in BestItems(ExpectedText) : DiffersInCaseOnly(it.text, ExpectedText)) =>
        /\ AppendsOne
        /\ NewHighlight.status = "wrong"
        /\ mismatches_count' = mismatches_count + 1
        /\ matches_count' = matches_count]_vars

\* The checks of a BARCODE_DIMENSIONS condition, as the claim words them.
SameTargetTextRules(c) ==
    {j \in 1..Len(conditions) :
        /\ conditions[j].type = "exact_text_match"
        /\ conditions[j].target_element_description = c.target_element_description}

CompanionRule(c) ==
    conditions[CHOOSE j \in SameTargetTextRules(c) : \A k \in SameTargetTextRules(c) : j <= k]

NoBarcodeAtAll == detected_barcodes = <<>>

NoPayloadRule(c) ==
    SameTargetTextRules(c) = {} \/ TextEmptyOrAbsent(CompanionRule(c).expected_text)

Payload(c) == The(CompanionRule(c).expected_text)

PayloadBarcodes(c) == {j \in 1..Len(detected_barcodes) : detected_barcodes[j].data = Payload(c)}

NoPayloadBarcode(c) == PayloadBarcodes(c) = {}

AtBarcode == InLoop /\ Condition.type = "barcode_dimensions"

BarcodeFault(c) == NoBarcodeAtAll \/ NoPayloadRule(c) \/ NoPayloadBarcode(c)

\* The message that names the check which decided.
FaultMessage(c) ==
    IF NoBarcodeAtAll
    THEN [msg |-> "No barcode detected on label to check dimensions."]
    ELSE IF NoPayloadRule(c)
    THEN [msg |-> "Could not find barcode number in rules for '{target}'.",
          target |-> c.target_element_description]
    ELSE [msg |-> "Could not find barcode with data '{data}' on the label.",
          data |-> Payload(c)]

\* C7: a BARCODE_DIMENSIONS condition is checked in the order (a) no
\* barcode detected, (b) no companion text rule or no payload in it, (c) no
\* detected barcode with that payload; the first check that applies
\* decides (its message is the one reported), and each of the three cases
\* appends one 'wrong' highlight at the sentinel box, mismatches + 1,
\* matches unchanged, whatever the measured dimensions are.
C7_BarcodeFaultOrder ==
    [][(AtBarcode /\ BarcodeFault(Condition)) =>
        /\ AppendsOne
        /\ NewHighlight.status = "wrong"
        /\ NewHighlight.bounding_box = SentinelBox
        /\ NewHighlight.message = FaultMessage(Condition)
        /\ mismatches_count' = mismatches_count + 1
        /\ matches_count' = matches_count]_vars

\* Check (c) decided: barcodes were detected, the companion rule carries a
\* payload, no barcode carries it.
C7_Witness ==
    /\ JustEvaluated("barcode_dimensions")
    /\ ~NoBarcodeAtAll /\ ~NoPayloadRule(Evaluated) /\ NoPayloadBarcode(Evaluated)
    /\ LastStatusIs("wrong")
    /\ highlights[Len(highlights)].bounding_box = SentinelBox
    /\ highlights[Len(highlights)].message = FaultMessage(Evaluated)

\* The barcode a dimension comparison is about: the first one detected
\* with the payload.
CheckedBarcode(c) ==
    detected_barcodes[CHOOSE j \in PayloadBarcodes(c) : \A k \in PayloadBarcodes(c) : j <= k]

\* A dimension is satisfied iff the rule does not give it or the measure
\* is within 0.5 mm of it, the boundary included (tenths of a millimetre).
Satisfied(measured, expected) == expected = {} \/ Abs(measured - The(expected)) <= 5

BothSatisfied(c) ==
    /\ Satisfied(CheckedBarcode(c).measured_width_mm, c.expected_width_mm)
    /\ Satisfied(CheckedBarcode(c).measured_height_mm, c.expected_height_mm)

\* C8: a BARCODE_DIMENSIONS condition with tolerance_mm = 0.5 that reaches
\* the comparison is 'correct' with matches + 1 iff width and height are
\* both satisfied, else 'wrong' with mismatches + 1; one highlight is
\* appended at the detected barcode's own box either way.  Expected 30.0
\* alone: measured 29.5, 29.6 and 30.2 are correct, 29.4 is wrong.
C8_BarcodeTolerance ==
    [][(AtBarcode /\ ~BarcodeFault(Condition) /\ Condition.tolerance_mm = {5}) =>
        /\ AppendsOne
        /\ NewHighlight.bounding_box = CheckedBarcode(Condition).bounding_box
        /\ IF BothSatisfied(Condition)
           THEN /\ NewHighlight.status = "correct"
                /\ matches_count' = matches_count + 1
                /\ mismatches_count' = mismatches_count
           ELSE /\ NewHighlight.status = "wrong"
                /\ mismatches_count' = mismatches_count + 1
                /\ matches_count' = matches_count
        /\ (Condition.expected_width_mm = {300} /\ Condition.expected_height_mm = {}) =>
              /\ CheckedBarcode(Condition).measured_width_mm \in {295, 296, 302}
                    => NewHighlight.status = "correct"
              /\ CheckedBarcode(Condition).measured_width_mm = 294
                    => NewHighlight.status = "wrong"]_vars

\* The boundary: measured 29.5 against expected 30.0 and 9.5 against 10.0
\* is 'correct', at the barcode's box.
C8_Witness ==
    /\ JustEvaluated("barcode_dimensions")
    /\ ~BarcodeFault(Evaluated)
    /\ Evaluated.expected_width_mm = {300} /\ Evaluated.expected_height_mm = {100}
    /\ CheckedBarcode(Evaluated).measured_width_mm = 295
    /\ CheckedBarcode(Evaluated).measured_height_mm = 95
    /\ LastStatusIs("correct")
    /\ highlights[Len(highlights)].bounding_box = CheckedBarcode(Evaluated).bounding_box
    /\ matches_count >= 1

\* Python's "sub in text".
Contains(text, sub) ==
    \E k \in 1..(Len(text) - Len(sub) + 1) : SubSeq(text, k, k + Len(sub) - 1) = sub

\* The pool items whose text equals or contains the condition's target.
TargetCandidates(c) ==
    IF c.target_element_description = {} THEN {}
    ELSE {j \in 1..Len(searchable_text_items) :
            Contains(searchable_text_items[j].text, The(c.target_element_description))}

AtFontSize == InLoop /\ Condition.type = "font_size"

\* C9 as claimed: a FONT_SIZE condition with a candidate that equals or
\* contains target_element_description gives one 'info' highlight at that
\* candidate's box and no mismatch; without one it gives mismatches + 1, a
\* fault-log entry and no highlight.
C9_FontSizeInfoHighlight ==
    [][AtFontSize =>
        IF TargetCandidates(Condition) # {}
        THEN /\ AppendsOne
             /\ NewHighlight.status = "info"
             /\ NewHighlight.bounding_box \in
                   {BoxOf(searchable_text_items[j]) : j \in TargetCandidates(Condition)}
             /\ mismatches_count' = mismatches_count
        ELSE /\ mismatches_count' = mismatches_count + 1
             /\ Len(faults_without_highlights') = Len(faults_without_highlights) + 1
             /\ AppendsNone]_vars

\* C9 amended: a FONT_SIZE condition, with or without a candidate that
\* equals or contains target_element_description, gives mismatches + 1,
\* one fault-log entry ("Rule type 'font_size' for '<target>' not fully
\* implemented.") and no highlight; matches is unchanged.
C9_FontSizeAlwaysFault ==
    [][AtFontSize =>
        /\ AppendsNone
        /\ mismatches_count' = mismatches_count + 1
        /\ matches_count' = matches_count
        /\ AppendsFault([msg |-> "Rule type '{type}' for '{target}' not fully implemented.",
                         type |-> "font_size",
                         target |-> Condition.target_element_description])]_vars

\* A FONT_SIZE condition was evaluated with its target text in the pool.
C9_Witness ==
    /\ JustEvaluated("font_size")
    /\ TargetCandidates(Evaluated) # {}
    /\ HighlightsOf(i) = {}
    /\ mismatches_count >= 1
    /\ faults_without_highlights # <<>>

Unimplemented == {"spacing", "element_presence", "translation_match"}

\* C10: a SPACING, ELEMENT_PRESENCE or TRANSLATION_MATCH condition gives
\* mismatches + 1, exactly one fault-log entry, no highlight, matches
\* unchanged; a rule set that holds such a condition never gets the
\* overall_status 'pass'.
C10_UnimplementedTypesFail ==
    [][/\ (InLoop /\ Condition.type \in Unimplemented) =>
            /\ mismatches_count' = mismatches_count + 1
            /\ matches_count' = matches_count
            /\ Len(faults_without_highlights') = Len(faults_without_highlights) + 1
            /\ SubSeq(faults_without_highlights', 1, Len(faults_without_highlights))
                  = faults_without_highlights
            /\ AppendsNone
       /\ (/\ result_object' # {}
           /\ \E k \in 1..Len(conditions) : conditions[k].type \in Unimplemented) =>
            The(result_object').overall_status # "pass"]_vars

\* A result was constructed for a rule set whose other condition matched.
C10_Witness ==
    /\ pc = "done" /\ result_object # {}
    /\ Len(conditions) = 2
    /\ conditions[1].type \in Unimplemented
    /\ matches_count = 1 /\ mismatches_count = 1
    /\ Len(faults_without_highlights) = 1 /\ Len(highlights) = 1
    /\ The(result_object).overall_status = "fail_minor"


\* The fault-log entry the except clause of the loop writes for a condition.
FailedEntry(condition) ==
    [msg |-> "Failed to process rule for '{target}'.",
     target |-> IF TextEmptyOrAbsent(condition.target_element_description)
                THEN [lit |-> "Unknown Target"]
                ELSE [text |-> The(condition.target_element_description)]]

IsFailedEntry(entry) == entry.msg = "Failed to process rule for '{target}'."

FailedEntries(log) == {n \in 1..Len(log) : IsFailedEntry(log[n])}

\* The step being taken ends in the except clause.
Raised ==
    /\ Len(faults_without_highlights') > Len(faults_without_highlights)
    /\ IsFailedEntry(faults_without_highlights'[Len(faults_without_highlights')])

\* C11: when the evaluation of a condition raises, the exception is caught:
\* mismatches grows, the fault log keeps its entries and ends with the one
\* entry the handler appends for this condition, and the loop moves to the
\* next condition; a condition evaluated without an exception, whatever
\* was raised before it, adds exactly what it adds in a run without
\* exceptions. No step of the loop aborts the analysis.
C11_ExceptionIsolated ==
    [][InLoop =>
        /\ pc' = "rules"
        /\ i' = i + 1
        /\ IF Raised
           THEN /\ mismatches_count' > mismatches_count
                /\ SubSeq(faults_without_highlights', 1, Len(faults_without_highlights))
                      = faults_without_highlights
                /\ faults_without_highlights'[Len(faults_without_highlights')]
                      = FailedEntry(Condition)
                /\ Cardinality(FailedEntries(faults_without_highlights'))
                      = Cardinality(FailedEntries(faults_without_highlights)) + 1
           ELSE LET e == BranchOutcome(i + 1)
                IN  /\ highlights' = highlights \o e.highlights
                    /\ faults_without_highlights' = faults_without_highlights \o e.faults
                    /\ matches_count' = matches_count + e.matches
                    /\ mismatches_count' = mismatches_count + e.mismatches]_vars

\* The first condition raised and the second one was still evaluated and
\* found its text.
C11_Witness ==
    /\ pc = "rules"
    /\ i = 2
    /\ HighlightsOf(1) = {}
    /\ FailedEntries(faults_without_highlights) # {}
    /\ mismatches_count >= 1
    /\ LastStatusIs("correct")
    /\ matches_count = 1

\* C12: the result's overall_status is 'pass' exactly when the final
\* mismatches counter is 0 and 'fail_minor' otherwise; its summary holds
\* the number of conditions of the rule set, skipped ones included, the
\* final matches and mismatches counters and the fault log as the loop
\* left it.
C12_StatusAndSummary ==
    result_object # {} =>
        LET r == The(result_object)
        IN  /\ i = Len(conditions)
            /\ (r.overall_status = "pass") <=> (mismatches_count = 0)
            /\ (r.overall_status = "fail_minor") <=> (mismatches_count # 0)
            /\ r.summary.total_rules_defined = Len(conditions)
            /\ r.summary.matches = matches_count
            /\ r.summary.mismatches_or_errors_in_rules = mismatches_count
            /\ r.summary.faults_without_highlights = faults_without_highlights

\* A result for a rule set with a skipped condition and a failed one.
C12_Witness ==
    /\ pc = "done"
    /\ result_object # {}
    /\ Len(conditions) = 2
    /\ \E k \in 1..2 : /\ conditions[k].type = "exact_text_match"
                       /\ TextEmptyOrAbsent(conditions[k].expected_text)
    /\ The(result_object).summary.total_rules_defined = 2
    /\ The(result_object).summary.matches = 0
    /\ The(result_object).summary.mismatches_or_errors_in_rules = 1
    /\ The(result_object).overall_status = "fail_minor"
    /\ Len(The(result_object).summary.faults_without_highlights) = 1

\* Nothing of the analysis has been produced.
NothingProduced ==
    /\ i = 0
    /\ highlights = <<>>
    /\ faults_without_highlights = <<>>
    /\ matches_count = 0
    /\ mismatches_count = 0
    /\ result_object = {}
    /\ uploads_dir = {}
    /\ processed_image_path_str = {}
    /\ analysis_results = <<>>

SameFragments(xs, ys) ==
    /\ Len(xs) = Len(ys)
    /\ \A x \in {xs[k] : k \in 1..Len(xs)} :
          Cardinality({k \in 1..Len(xs) : xs[k] = x}) = Cardinality({k \in 1..Len(ys) : ys[k] = x})

\* C13: the barcode detection starts with the OCR output complete, and a
\* condition is evaluated only with the output of both; when either of the
\* two fails the run ends there: no condition evaluated, no image drawn,
\* no result constructed, no row written, and no step follows.
C13_CollaboratorsFirst ==
    [][/\ pc = "barcode" => all_ocr_data = image.ocr
       /\ InLoop => /\ SameFragments(all_ocr_data, image.ocr)
                    /\ detected_barcodes = image.barcodes
       /\ pc' = "raised" => /\ pc \in {"ocr", "barcode"}
                            /\ NothingProduced'
       /\ pc # "raised"]_vars

\* The OCR succeeded and the barcode detection failed, with conditions
\* waiting.
C13_Witness ==
    /\ pc = "raised"
    /\ all_ocr_data # <<>>
    /\ conditions # <<>>
    /\ NothingProduced


\* The steps after the loop.
AfterLoopStep ==
    \/ DrawBoundingBoxes
    \/ DrawBoundingBoxesFails
    \/ StoreProcessedImage
    \/ StoreProcessedImageFails
    \/ CleanupTempFile
    \/ ConstructResult
    \/ CreateAnalysis
    \/ CreateAnalysisFails

\* The result carries what the loop ended with.
ResultOfLoop ==
    /\ result_object # {}
    /\ The(result_object).highlights = highlights
    /\ The(result_object).summary.matches = matches_count
    /\ The(result_object).summary.mismatches_or_errors_in_rules = mismatches_count
    /\ The(result_object).overall_status \in {"pass", "fail_minor"}

\* C14: once OCR and barcode detection have succeeded the run never
\* raises: the loop stands at a condition of a known type or at its end,
\* and after the loop there is always a next step until the result is
\* returned, whatever the conditions gave and whether or not the drawing,
\* the storing or the database write failed; the steps after the loop
\* start when every condition has been handled, and the result, from its
\* construction to its return, carries the highlights, counters and status
\* the loop ended with.
C14_AlwaysAResult ==
    /\ pc = "raised" => (NothingProduced /\ searchable_text_items = <<>>)
    /\ pc = "rules" => /\ i <= Len(conditions)
                       /\ InLoop => Condition.type \in RuleType
    /\ (AfterLoop \/ pc \in {"store", "cleanup", "construct", "persist"}) =>
            ENABLED AfterLoopStep
    /\ pc \in {"store", "cleanup", "construct", "persist", "done"} => i = Len(conditions)
    /\ result_object # {} => ResultOfLoop
    /\ pc = "done" => ResultOfLoop

\* A result returned although every condition raised or mismatched, no
\* image was stored and the database write failed.
C14_Witness ==
    /\ pc = "done"
    /\ Len(conditions) = 2
    /\ FailedEntries(faults_without_highlights) # {}
    /\ matches_count = 0
    /\ mismatches_count >= 2
    /\ processed_image_path_str = {}
    /\ analysis_results = <<>>
    /\ ResultOfLoop
    /\ The(result_object).overall_status = "fail_minor"


\* The list is in ascending (top, left) order.
IsSortedTopLeft(xs) ==
    \A k \in 1..(Len(xs) - 1) :
        \/ xs[k].top < xs[k + 1].top
        \/ xs[k].top = xs[k + 1].top /\ xs[k].left <= xs[k + 1].left

\* The first position of the pool that attains the best score.
FirstBest(t) ==
    CHOOSE k \in 1..Len(searchable_text_items) :
        /\ PoolScore(t, k) = BestScore(t)
        /\ \A j \in 1..(k - 1) : PoolScore(t, j) < BestScore(t)

\* C15: the pool of an EXACT_TEXT_MATCH evaluation is the OCR fragments in
\* ascending (top, left) order followed by the line blocks built from
\* them; when the best score is at least the minimum similarity, the
\* highlight is placed at the first pool item that attains the best
\* score and reports that item's text: an equal score further on in the
\* pool never takes its place.
C15_PoolOrderAndFirstBest ==
    [][/\ pc = "rules" =>
            LET n == Len(image.ocr)
            IN  /\ Len(searchable_text_items) >= n
                /\ SameFragments(SubSeq(searchable_text_items, 1, n), image.ocr)
                /\ IsSortedTopLeft(SubSeq(searchable_text_items, 1, n))
                /\ SubSeq(searchable_text_items, n + 1, Len(searchable_text_items))
                      = reconstruct_text_blocks(image.ocr)
       /\ (AtExactText /\ BestScore(ExpectedText) >= 60) =>
            /\ AppendsOne
            /\ NewHighlight.bounding_box
                  = BoxOf(searchable_text_items[FirstBest(ExpectedText)])
            /\ NewHighlight.found_value
                  = {[text |-> searchable_text_items[FirstBest(ExpectedText)].text]}]_vars

\* Two fragments "Net" that the OCR returned lower one first: the
\* highlight is at the upper one, which the sort has put first, although
\* the lower one and both line blocks score the same.
C15_Witness ==
    /\ pc = "rules"
    /\ i = 1
    /\ conditions[1].type = "exact_text_match"
    /\ conditions[1].expected_text = {T_Net}
    /\ Len(image.ocr) = 2
    /\ image.ocr[1].text = T_Net
    /\ image.ocr[2].text = T_Net
    /\ image.ocr[1].top > image.ocr[2].top
    /\ Len(searchable_text_items) = 4
    /\ Len(highlights) = 1
    /\ highlights[1].status = "correct"
    /\ highlights[1].bounding_box = BoxOf(image.ocr[2])
    /\ BoxOf(image.ocr[1]) # BoxOf(image.ocr[2])


\* reconstruct_text_blocks has returned: the fragments are sorted and the
\* line blocks follow them in the pool.
Reconstructed == pc \notin {"ocr", "barcode", "reconstruct", "raised"}

Blocks ==
    SubSeq(searchable_text_items, Len(all_ocr_data) + 1, Len(searchable_text_items))

\* C17: for an empty fragment list reconstruct_text_blocks returns an empty
\* list; for a single fragment it returns one block with that fragment's
\* text, left, top, width, height and confidence, and applied to that
\* block it returns the same block again.
C17_EmptyAndSingleFragment ==
    Reconstructed =>
        /\ image.ocr = <<>> => (Blocks = <<>> /\ searchable_text_items = <<>>)
        /\ Len(image.ocr) = 1 =>
              /\ Len(Blocks) = 1
              /\ Blocks[1].text = image.ocr[1].text
              /\ Blocks[1].left = image.ocr[1].left
              /\ Blocks[1].top = image.ocr[1].top
              /\ Blocks[1].width = image.ocr[1].width
              /\ Blocks[1].height = image.ocr[1].height
              /\ Blocks[1].confidence = image.ocr[1].confidence
              /\ reconstruct_text_blocks(Blocks) = Blocks

\* The block of the single fragment "Net".
C17_Witness ==
    /\ pc = "rules"
    /\ Len(image.ocr) = 1
    /\ Len(searchable_text_items) = 2
    /\ searchable_text_items[2] = image.ocr[1]
    /\ searchable_text_items[2].text = T_Net
    /\ searchable_text_items[2].width = 30

\* |mid(f) - mid(previous)| < 0.7 * previous.height, mid = top + height/2.
Aligned(previous, f) ==
    10 * Abs((2 * f.top + f.height) - (2 * previous.top + previous.height))
        < 14 * previous.height

\* The positions of the sorted fragments where a line starts, and the
\* lines they cut the sorted fragments into.
LineStarts ==
    {k \in 1..Len(all_ocr_data) : k = 1 \/ ~Aligned(all_ocr_data[k - 1], all_ocr_data[k])}

NthStart(j) == CHOOSE k \in LineStarts : Cardinality({s \in LineStarts : s < k}) = j - 1

LineOf(j) ==
    SubSeq(all_ocr_data, NthStart(j),
           IF j = Cardinality(LineStarts) THEN Len(all_ocr_data) ELSE NthStart(j + 1) - 1)

SameWords(xs, ys) ==
    /\ Len(xs) = Len(ys)
    /\ \A x \in {xs[k] : k \in 1..Len(xs)} :
          Cardinality({k \in 1..Len(xs) : xs[k] = x}) = Cardinality({k \in 1..Len(ys) : ys[k] = x})

\* C18: the fragments are walked in ascending (top, left) order and a
\* fragment stays in the current line exactly when its midpoint is less
\* than 0.7 times the height of the fragment just before it away from
\* that fragment's midpoint: there is one block per line so cut, made of
\* the words of that run of consecutive fragments, and the fragment after
\* a fragment of height 0 starts a line.
C18_LineGrouping ==
    Reconstructed =>
        /\ IsSortedTopLeft(all_ocr_data)
        /\ Len(Blocks) = Cardinality(LineStarts)
        /\ \A j \in 1..Len(Blocks) :
              SameWords(Split(Blocks[j].text),
                        [k \in 1..Len(LineOf(j)) |-> LineOf(j)[k].text])
        /\ \A k \in 2..Len(all_ocr_data) :
              all_ocr_data[k - 1].height = 0 => k \in LineStarts

\* Three fragments in one line although the third is not aligned with
\* the first: it is aligned with the second.
C18_Witness ==
    /\ pc = "rules"
    /\ Len(all_ocr_data) = 3
    /\ Len(Blocks) = 1
    /\ Aligned(all_ocr_data[1], all_ocr_data[2])
    /\ Aligned(all_ocr_data[2], all_ocr_data[3])
    /\ ~Aligned(all_ocr_data[1], all_ocr_data[3])


\* The words joined by single spaces.
RECURSIVE Spaced(_)
Spaced(ws) ==
    IF ws = <<>> THEN <<>>
    ELSE IF Len(ws) = 1 THEN ws[1]
    ELSE ws[1] \o <<32>> \o Spaced(Tail(ws))

\* The orders of a line's members in which left never decreases.
LeftToRightOrders(line) ==
    {o \in [1..Len(line) -> 1..Len(line)] :
        /\ \A j, k \in 1..Len(line) : j # k => o[j] # o[k]
        /\ \A k \in 1..(Len(line) - 1) : line[o[k]].left <= line[o[k + 1]].left}

\* The sum of the members' confidences (whole percents).
RECURSIVE ConfidenceSum(_)
ConfidenceSum(line) ==
    IF line = <<>> THEN 0 ELSE line[1].confidence[1] + ConfidenceSum(Tail(line))

IsEnvelope(b, line) ==
    /\ \A k \in 1..Len(line) :
          /\ b.left <= line[k].left
          /\ b.top <= line[k].top
          /\ b.left + b.width >= line[k].left + line[k].width
          /\ b.top + b.height >= line[k].top + line[k].height
    /\ \E k \in 1..Len(line) : b.left = line[k].left
    /\ \E k \in 1..Len(line) : b.top = line[k].top
    /\ \E k \in 1..Len(line) : b.left + b.width = line[k].left + line[k].width
    /\ \E k \in 1..Len(line) : b.top + b.height = line[k].top + line[k].height

\* C19: the text of a line block is the texts of the line's fragments in
\* ascending order of left, joined by single spaces; its box is the
\* smallest box that holds every fragment's box (least left, least top,
\* greatest right, greatest bottom); its confidence is the arithmetic
\* mean of the fragments' confidences.
C19_BlockContent ==
    Reconstructed =>
        \A j \in 1..Len(Blocks) :
            LET line == LineOf(j)
                b == Blocks[j]
            IN  /\ \E o \in LeftToRightOrders(line) :
                      b.text = Spaced([k \in 1..Len(line) |-> line[o[k]].text])
                /\ IsEnvelope(b, line)
                /\ \A k \in 1..Len(line) : line[k].confidence[2] = 1
                /\ b.confidence[1] * Len(line) = ConfidenceSum(line) * b.confidence[2]

\* The line "Net Net WT": the leftmost word is the one the walk met last,
\* the box spans the three fragments, the confidence is (90+85+80)/3.
C19_Witness ==
    /\ pc = "rules"
    /\ Len(all_ocr_data) = 3
    /\ Len(Blocks) = 1
    /\ all_ocr_data[3].left < all_ocr_data[1].left
    /\ Blocks[1].text = T_Net \o <<32>> \o T_Net \o <<32>> \o T_WT
    /\ BoxOf(Blocks[1]) = [x |-> 5, y |-> 10, width |-> 65, height |-> 17]
    /\ Blocks[1].confidence = <<85, 1>>

\* C20: the similarity of a non-empty text to itself is 1.0, and an
\* EXACT_TEXT_MATCH condition whose expected text is the text of some item
\* of the pool gets the verdict 'correct'.
C20_IdenticalTextIsCorrect ==
    [][(/\ AtExactText
        /\ \E k \in 1..Len(searchable_text_items) :
              searchable_text_items[k].text = ExpectedText) =>
            /\ get_text_similarity_ratio(ExpectedText, ExpectedText) = 100
            /\ AppendsOne
            /\ NewHighlight.status = "correct"
            /\ matches_count' = matches_count + 1
            /\ mismatches_count' = mismatches_count]_vars


\* What the rule set, the OCR fragment list and the detected barcodes
\* determine: the pool, what the k-th condition adds, and the lists and
\* counters after the first k conditions.
PoolOf(ocr) == SortByTopLeft(ocr) \o reconstruct_text_blocks(ocr)

AddedBy(k, conds, ocr, barcodes) ==
    LET condition == conds[k]
        ref == <<"rule", k, condition.type>>
    IN  IF condition.type = "exact_text_match"
        THEN ExactTextOutcome(ref, condition, PoolOf(ocr))
        ELSE IF condition.type = "font_size"
        THEN FontSizeOutcome(ref, condition, PoolOf(ocr))
        ELSE IF condition.type = "barcode_dimensions"
        THEN BarcodeOutcome(ref, condition, conds, barcodes)
        ELSE OtherOutcome(ref, condition)

RECURSIVE EvaluationUpTo(_, _, _, _)
EvaluationUpTo(k, conds, ocr, barcodes) ==
    IF k = 0 THEN [highlights |-> <<>>, faults |-> <<>>, matches |-> 0, mismatches |-> 0]
    ELSE LET before == EvaluationUpTo(k - 1, conds, ocr, barcodes)
             e == AddedBy(k, conds, ocr, barcodes)
         IN  [highlights |-> before.highlights \o e.highlights,
              faults |-> before.faults \o e.faults,
              matches |-> before.matches + e.matches,
              mismatches |-> before.mismatches + e.mismatches]

C22_FullEvidence ==
    \A k \in 1..Len(highlights) :
        /\ highlights[k].found_value # {}
        /\ highlights[k].expected_value # {}
        /\ highlights[k].confidence # {}

\* The row the engine hands to the persistence collaborator.
FinishedRow ==
    [result_data |-> The(result_object), initial_ruleset |-> conditions,
     processed_image_path |-> processed_image_path_str]

\* C25: the table of analyses changes only by one insert per analysis,
\* made when every condition has been evaluated and the result has been
\* constructed, of a row with that result and the rule set as it was
\* given; the rule set is never modified; after the insert or its failure
\* the run takes no further step (no retry), and a row once written is
\* never changed or removed (no update).
C25_WriteOnce ==
    [][/\ conditions' = conditions
       /\ Len(analysis_results') <= 1
       /\ analysis_results' # analysis_results =>
            /\ analysis_results = <<>>
            /\ i = Len(conditions)
            /\ result_object # {}
            /\ result_object' = result_object
            /\ analysis_results' = <<FinishedRow>>
            /\ pc' = "done"
       /\ analysis_results # <<>> => analysis_results' = analysis_results
       /\ pc # "done"]_vars

\* The row of a finished analysis whose rule set has a skipped condition
\* and an evaluated one: both are in the stored rule set.
C25_Witness ==
    /\ pc = "done"
    /\ analysis_results = <<FinishedRow>>
    /\ Len(conditions) = 2
    /\ \E k \in 1..2 : /\ conditions[k].type = "exact_text_match"
                       /\ TextEmptyOrAbsent(conditions[k].expected_text)
    /\ Len(analysis_results[1].initial_ruleset) = 2
    /\ Len(analysis_results[1].result_data.highlights) = 1
    /\ analysis_results[1].processed_image_path # {}

\* C26: a condition adds at most 1 to matches + mismatches on every path,
\* the one through the except clause included, so that any result has
\* matches + mismatches <= total_rules_defined.
C26_CountedAtMostOnce ==
    [][/\ InLoop =>
            (matches_count' + mismatches_count') - (matches_count + mismatches_count) <= 1
       /\ result_object' # {} =>
            The(result_object').summary.matches
              + The(result_object').summary.mismatches_or_errors_in_rules
                  <= The(result_object').summary.total_rules_defined]_vars

\* The conditions the loop does not skip.
NotSkipped ==
    {k \in 1..Len(conditions) :
        ~(conditions[k].type = "exact_text_match"
            /\ TextEmptyOrAbsent(conditions[k].expected_text))}

\* C29 as claimed: a result with overall_status 'pass' has matches =
\* total_rules_defined and one 'correct' highlight per condition of the
\* rule set, so that an empty rule set or one whose conditions were all
\* skipped is never reported as 'pass'.
C29_PassMeansAllCorrect ==
    (result_object # {} /\ The(result_object).overall_status = "pass") =>
        LET r == The(result_object)
        IN  /\ r.summary.matches = r.summary.total_rules_defined
            /\ Len(r.highlights) = Len(conditions)
            /\ \A k \in 1..Len(conditions) :
                  /\ r.highlights[k].rule_id_ref[2] = k
                  /\ r.highlights[k].status = "correct"
            /\ conditions # <<>>
            /\ NotSkipped # {}

\* C29: a result with overall_status 'pass' has no mismatch and an empty
\* fault log, and every condition that was not skipped got the verdict
\* 'correct': matches is the number of conditions not skipped and the
\* highlights are one 'correct' highlight for each of them, in order, and
\* none for a skipped condition.
C29_PassMeansEvaluatedCorrect ==
    (result_object # {} /\ The(result_object).overall_status = "pass") =>
        LET r == The(result_object)
        IN  /\ r.summary.mismatches_or_errors_in_rules = 0
            /\ r.summary.faults_without_highlights = <<>>
            /\ r.summary.matches = Cardinality(NotSkipped)
            /\ Len(r.highlights) = Cardinality(NotSkipped)
            /\ \A n \in 1..Len(r.highlights) :
                  /\ r.highlights[n].status = "correct"
                  /\ r.highlights[n].rule_id_ref[2] \in NotSkipped
            /\ \A k \in NotSkipped :
                  Cardinality({n \in 1..Len(r.highlights) :
                                  r.highlights[n].rule_id_ref[2] = k}) = 1
            /\ StrictlyIncreasing(r.highlights)

\* A 'pass' for a rule set of two conditions, one skipped and one matched.
C29_Witness ==
    /\ result_object # {}
    /\ The(result_object).overall_status = "pass"
    /\ Len(conditions) = 2
    /\ Cardinality(NotSkipped) = 1
    /\ The(result_object).summary.matches = 1
    /\ Len(The(result_object).highlights) = 1

\* The tolerance the claim applies: the rule's own whenever it is set, and
\* 0.5 mm only when it is absent (tenths of a millimetre).
ClaimedTolerance(c) == IF c.tolerance_mm = {} THEN 5 ELSE The(c.tolerance_mm)

WithinClaimed(measured, expected, c) ==
    expected = {} \/ Abs(measured - The(expected)) <= ClaimedTolerance(c)

\* C27: the comparison of a BARCODE_DIMENSIONS condition applies the
\* condition's tolerance_mm whenever it is set, 0 included (measured must
\* then equal expected), and 0.5 mm only when it is absent: the verdict is
\* 'correct' exactly when every given dimension is within that tolerance.
C27_ToleranceAsGiven ==
    [][(AtBarcode /\ ~BarcodeFault(Condition)) =>
        /\ AppendsOne
        /\ (NewHighlight.status = "correct") <=>
              /\ WithinClaimed(CheckedBarcode(Condition).measured_width_mm,
                               Condition.expected_width_mm, Condition)
              /\ WithinClaimed(CheckedBarcode(Condition).measured_height_mm,
                               Condition.expected_height_mm, Condition)]_vars

\* C28: the companion of a BARCODE_DIMENSIONS condition is the first
\* EXACT_TEXT_MATCH condition of the whole rule set with an equal
\* target_element_description (two absent ones are equal), whether it is
\* declared before or after the barcode rule.  With a barcode detected:
\* if there is no companion or that first companion has no expected_text,
\* the outcome is the 'barcode number' fault, whatever a later text rule
\* with the same description carries; otherwise the barcode looked for is
\* the one with that companion's text.
C28_FirstCompanionAnywhere ==
    [][(AtBarcode /\ ~NoBarcodeAtAll) =>
        /\ AppendsOne
        /\ IF NoPayloadRule(Condition)
           THEN /\ NewHighlight.status = "wrong"
                /\ NewHighlight.bounding_box = SentinelBox
                /\ NewHighlight.message =
                      [msg |-> "Could not find barcode number in rules for '{target}'.",
                       target |-> Condition.target_element_description]
                /\ mismatches_count' = mismatches_count + 1
                /\ matches_count' = matches_count
           ELSE IF NoPayloadBarcode(Condition)
           THEN /\ NewHighlight.bounding_box = SentinelBox
                /\ NewHighlight.message =
                      [msg |-> "Could not find barcode with data '{data}' on the label.",
                       data |-> Payload(Condition)]
           ELSE /\ NewHighlight.bounding_box = CheckedBarcode(Condition).bounding_box
                /\ NewHighlight.message.data = Payload(Condition)]_vars

\* The barcode rule is declared first; of the two text rules for 'BC1'
\* after it the first has no expected_text and the second has the payload
\* of the detected barcode: the outcome is the 'barcode number' fault.
C28_Witness ==
    /\ pc = "rules"
    /\ i = 1
    /\ Len(conditions) = 3
    /\ conditions[1].type = "barcode_dimensions"
    /\ conditions[1].target_element_description = {T_BC1}
    /\ conditions[2].type = "exact_text_match"
    /\ conditions[2].target_element_description = {T_BC1}
    /\ conditions[2].expected_text = {}
    /\ conditions[3].type = "exact_text_match"
    /\ conditions[3].target_element_description = {T_BC1}
    /\ conditions[3].expected_text = {T_12}
    /\ detected_barcodes # <<>>
    /\ detected_barcodes[1].data = T_12
    /\ LastStatusIs("wrong")
    /\ highlights[1].message.msg = "Could not find barcode number in rules for '{target}'."

\* C21: get_text_similarity_ratio returns 0 whenever one of its arguments,
\* or both, is the empty string, and it does so without a call of the
\* fuzzy scorer; whatever the arguments, what it returns lies between 0
\* and 1 (0 and 100 percent).
C21_EmptyScoresZero ==
    \A c \in call :
        c.returned # {} =>
            /\ The(c.returned) \in 0..100
            /\ (c.text1 = <<>> \/ c.text2 = <<>>) =>
                  /\ The(c.returned) = 0
                  /\ c.scorer_calls = <<>>

\* A call with an empty first argument and a second one that is not
\* empty has returned.
C21_Witness ==
    \E c \in call :
        /\ c.text1 = <<>>
        /\ c.text2 = T_Net
        /\ c.returned = {0}
        /\ c.scorer_calls = <<>>

\* The rule set with every sensitivity_override taken away.
Plain(conds) == [k \in 1..Len(conds) |-> [conds[k] EXCEPT !.sensitivity_override = {}]]

\* C23: the global sensitivity and the conditions' sensitivity_override
\* have no influence: whatever their values, every condition adds to the
\* highlights, the counters and the fault log what the rule set without
\* its overrides, the OCR fragments and the barcodes determine for it,
\* and the overall_status of the result follows from the mismatches
\* counted that way; neither value is changed on the way.
C23_SensitivityIgnored ==
    [][/\ InLoop =>
            LET e == AddedBy(i + 1, Plain(conditions), image.ocr, image.barcodes)
            IN  /\ highlights' = highlights \o e.highlights
                /\ faults_without_highlights' = faults_without_highlights \o e.faults
                /\ matches_count' = matches_count + e.matches
                /\ mismatches_count' = mismatches_count + e.mismatches
       /\ ~InLoop => /\ highlights' = highlights
                     /\ faults_without_highlights' = faults_without_highlights
                     /\ matches_count' = matches_count
                     /\ mismatches_count' = mismatches_count
       /\ (result_object = {} /\ result_object' # {}) =>
            /\ The(result_object').highlights = highlights
            /\ The(result_object').summary.matches = matches_count
            /\ The(result_object').summary.mismatches_or_errors_in_rules = mismatches_count
            /\ The(result_object').summary.faults_without_highlights = faults_without_highlights
            /\ The(result_object').overall_status =
                  (IF mismatches_count = 0 THEN "pass" ELSE "fail_minor")
       /\ sensitivity' = sensitivity
       /\ conditions' = conditions]_vars

\* A result at sensitivity 0 for a text rule whose override is 100 and a
\* text rule whose override is 0: the near match "Nets" is 'wrong' for
\* both.
C23_Witness ==
    /\ pc = "done"
    /\ sensitivity = 0
    /\ Len(conditions) = 2
    /\ conditions[1].type = "exact_text_match" /\ conditions[1].sensitivity_override = {100}
    /\ conditions[2].type = "exact_text_match" /\ conditions[2].sensitivity_override = {0}
    /\ conditions[1].expected_text = {T_Net} /\ conditions[2].expected_text = {T_Net}
    /\ Len(highlights) = 2
    /\ highlights[1].status = "wrong" /\ highlights[2].status = "wrong"
    /\ highlights[1].found_value = {[text |-> T_Nets]}
    /\ highlights[2].found_value = highlights[1].found_value
    /\ The(result_object).overall_status = "fail_minor"

\* The two analyses by their frames, and what an analysis run alone has
\* produced after the conditions it has evaluated.
Frames == {Frame} \cup suspended

RunAlone(f) == EvaluationUpTo(f.i, f.conditions, f.image.ocr, f.image.barcodes)

ProcessedFileOf(id) == <<"processed_", id, ".png">>

\* C24: two analyses interleaved at their awaits share no evaluation
\* state.  A step of the one that runs leaves the frame of the other as it
\* is, and a change of turn changes neither frame; in every state each
\* analysis has the highlights, fault log and counters it would have when
\* run alone; a step creates or deletes no file but the processed image
\* named after the running analysis, and the file of an analysis stays in
\* place from its drawing to its own cleanup.
C24_NoSharedState ==
    [][/\ analysis_id' = analysis_id => suspended' = suspended
       /\ analysis_id' # analysis_id =>
            /\ Frame' \in suspended
            /\ suspended' = {Frame}
            /\ uploads_dir' = uploads_dir
            /\ analysis_results' = analysis_results
       /\ \A f \in {Frame'} \cup suspended' :
            /\ f.pc \in {"rules", "store", "cleanup", "construct", "persist", "done"} =>
                  /\ f.highlights = RunAlone(f).highlights
                  /\ f.faults_without_highlights = RunAlone(f).faults
                  /\ f.matches_count = RunAlone(f).matches
                  /\ f.mismatches_count = RunAlone(f).mismatches
            /\ f.pc \in {"store", "cleanup"} => ProcessedFileOf(f.analysis_id) \in uploads_dir'
       /\ (uploads_dir' \ uploads_dir) \cup (uploads_dir \ uploads_dir')
              \subseteq {ProcessedFileOf(analysis_id)}]_vars

\* Both analyses stand between the drawing and the cleanup, each with its
\* own file in the upload directory, and with different highlights.
C24_Witness ==
    /\ suspended # {}
    /\ pc = "cleanup"
    /\ The(suspended).pc = "store"
    /\ uploads_dir = {ProcessedFileOf(1), ProcessedFileOf(2)}
    /\ highlights # <<>>
    /\ The(suspended).highlights # <<>>
    /\ highlights[1].status # The(suspended).highlights[1].status

\* The request is over: the response has been sent and the scheduled
\* tasks have run, or an HTTPException has been raised.
RequestOver == pc \in {"closed", "http_error"}

\* C30: every temporary file of a request is deleted on every path: when
\* the request is over, whether the analysis returned a result or raised
\* and whether or not the processed image was stored, neither the saved
\* upload nor the intermediate processed image is left in the upload
\* directory.
C30_NoTempFileLeft ==
    RequestOver => uploads_dir = {}

====
